---------------------------- MODULE Spec2Model ----------------------------
(***************************************************************************)
(* Model of the secure-partition loader of xloader_secure.c                *)
(* (src/unnamed/part_000): XLoader_SecureInit, XLoader_SecureCopy,         *)
(* XLoader_SecureChunkCopy, XLoader_StartNextChunkCopy,                    *)
(* XLoader_ProcessChecksumPrtn and XLoader_VerifyHashNUpdateNext.          *)
(*                                                                         *)
(* Lengths and addresses are in bytes.  The chunk size, the hash length    *)
(* and the word length are scaled down; they keep the relations of the     *)
(* program: the chunk size and the hash length are whole numbers of words  *)
(* and a chunk is longer than a hash.                                      *)
(*                                                                         *)
(* A memory cell holds a sequence of integers: <<n>> with n >= 1 is a      *)
(* payload byte, <<0>> the cleared byte, negative ones are stale or        *)
(* corrupted bytes, longer sequences (starting with 0) bytes of a digest.  *)
(***************************************************************************)
EXTENDS Integers, Sequences, FiniteSets, TLC

(***************************************************************************)
(* Bound of the model: the longest partition, in chunks.                   *)
(***************************************************************************)
MaxChunks == 3

(***************************************************************************)
(* Program constants.                                                      *)
(***************************************************************************)
XIH_PRTN_WORD_LEN == 4
HashWords == 1
ChunkWords == 2
XLOADER_SHA3_LEN == HashWords * XIH_PRTN_WORD_LEN
XLOADER_SECURE_CHUNK_SIZE == ChunkWords * XIH_PRTN_WORD_LEN
XPLMI_PMCRAM_CHUNK_MEMORY == 0
XPLMI_PMCRAM_CHUNK_MEMORY_1 == XPLMI_PMCRAM_CHUNK_MEMORY + XLOADER_SECURE_CHUNK_SIZE

XST_SUCCESS == 0
XST_FAILURE == 1

XLOADER_SEC_BUF_CLEAR_ERR == 32768
XLOADER_SEC_BUF_CLEAR_SUCCESS == 16384

XLOADER_ERR_MEMSET == 2
XLOADER_ERR_MEMSET_SECURE_PTR == 3
XLOADER_ERR_INIT_GET_DMA == 4
XLOADER_ERR_INIT_INVALID_CHECKSUM_TYPE == 5
XLOADER_ERR_INIT_CHECKSUM_COPY_FAIL == 6
XLOADER_ERR_DATA_COPY_FAIL == 7
XLOADER_ERR_DMA_TRANSFER == 8
XLOADER_ERR_PRTN_HASH_CALC_FAIL == 9
XLOADER_ERR_PRTN_HASH_COMPARE_FAIL == 10

XIH_PH_ATTRB_HASH_SHA3 == 3

MaxSize == MaxChunks * XLOADER_SECURE_CHUNK_SIZE

(***************************************************************************)
(* Status arithmetic.  Lengths are kept as unbounded integers: a u32       *)
(* subtraction that wraps in the program shows as a negative length here.  *)
(***************************************************************************)
U16 == 65536

RECURSIVE BitOr(_, _)
BitOr(a, b) ==
    IF a = 0 THEN b
    ELSE IF b = 0 THEN a
    ELSE (IF (a % 2 = 1) \/ (b % 2 = 1) THEN 1 ELSE 0)
         + 2 * BitOr(a \div 2, b \div 2)

RECURSIVE BitAnd(_, _)
BitAnd(a, b) ==
    IF a = 0 \/ b = 0 THEN 0
    ELSE (IF (a % 2 = 1) /\ (b % 2 = 1) THEN 1 ELSE 0)
         + 2 * BitAnd(a \div 2, b \div 2)

\* XPlmi_UpdateStatus: major code in the upper half word, minor in the lower.
XPlmi_UpdateStatus(Major, Minor) == (Major * U16) + (Minor % U16)

Min(a, b) == IF a <= b THEN a ELSE b

(***************************************************************************)
(* Bytes, digests and the partition image.                                 *)
(***************************************************************************)
ClearByte == <<0>>
StaleByte == <<-2>>
CorruptByte == <<-1>>
PayloadByte(off) == <<off + 1>>

RECURSIVE Flatten(_)
Flatten(data) ==
    IF data = <<>> THEN <<>>
    ELSE <<Len(Head(data))>> \o Head(data) \o Flatten(Tail(data))

\* The SHA3 digest of a byte sequence, as XLOADER_SHA3_LEN bytes.  Injective:
\* its first byte carries the whole (length-prefixed) input.
Sha3Digest(data) ==
    [i \in 1..XLOADER_SHA3_LEN |->
        IF i = 1 THEN <<0, 1>> \o Flatten(data) ELSE <<0, i>>]

NumChunks(size) ==
    (size + XLOADER_SECURE_CHUNK_SIZE - 1) \div XLOADER_SECURE_CHUNK_SIZE

\* The bytes of chunk k of a well-formed checksum partition of `size` bytes:
\* a non-final chunk is payload followed by the digest of the next chunk,
\* the final chunk is payload only.
RECURSIVE ChunkImage(_, _)
ChunkImage(k, size) ==
    LET base == k * XLOADER_SECURE_CHUNK_SIZE
    IN  IF k = NumChunks(size) - 1
        THEN [p \in 1..(size - base) |-> PayloadByte(base + p - 1)]
        ELSE [p \in 1..(XLOADER_SECURE_CHUNK_SIZE - XLOADER_SHA3_LEN) |->
                 PayloadByte(base + p - 1)]
             \o Sha3Digest(ChunkImage(k + 1, size))

RECURSIVE ImageFrom(_, _)
ImageFrom(k, size) ==
    IF k >= NumChunks(size) THEN <<>>
    ELSE ChunkImage(k, size) \o ImageFrom(k + 1, size)

PrtnImage(size) == ImageFrom(0, size)

PrtnChecksum(size) ==
    IF size = 0 THEN Sha3Digest(<<>>) ELSE Sha3Digest(ChunkImage(0, size))

ZeroHash == [i \in 1..XLOADER_SHA3_LEN |-> ClearByte]

NoTamper == MaxSize

\* The flash image: the checksum field, then the partition data with the
\* byte at offset `tam` of the data corrupted (none when tam = NoTamper).
FlashImage(size, tam) ==
    LET img == PrtnImage(size)
    IN  PrtnChecksum(size)
        \o [p \in 1..size |-> IF p - 1 = tam THEN CorruptByte ELSE img[p]]

\* Position of data offset `off`: its chunk, and whether it lies in the
\* trailing embedded hash of a non-final chunk.
ChunkOf(off) == off \div XLOADER_SECURE_CHUNK_SIZE
InEmbeddedHash(off, size) ==
    /\ ChunkOf(off) < NumChunks(size) - 1
    /\ off % XLOADER_SECURE_CHUNK_SIZE
          >= XLOADER_SECURE_CHUNK_SIZE - XLOADER_SHA3_LEN

(***************************************************************************)
(* State.                                                                  *)
(***************************************************************************)
VARIABLES
    pc,         \* position of the caller / of XLoader_SecureCopy
    SecurePtr,  \* XLoader_SecureParams
    PdiPtr,     \* the fields of XilPdi the loader reads
    PrtnHdr,    \* the fields of XilPdi_PrtnHdr the loader reads
    InitStatus, \* return value of XLoader_SecureInit
    InitCalls,  \* the init functions XLoader_SecureInit called, in call order
    sc,         \* arguments and locals of XLoader_SecureCopy
    pcp,        \* locals of XLoader_ProcessChecksumPrtn
    flash,      \* the boot medium, read by DeviceCopy
    pmcram,     \* the two chunk buffers
    ddr,        \* the load region written by XPlmi_DmaXfr
    dma,        \* the transfer DeviceCopy initiated and has not waited for
    PrtnLen,    \* length of the partition data in flash
    Tamper,     \* offset of the corrupted data byte, or NoTamper
    DevLog,     \* DeviceCopy calls and verifier results, in call order
    PrcLog,     \* the processor calls that returned, in call order
    ClrCalls,   \* XPlmi_InitNVerifyMem calls, in call order
    rpc,        \* position in XLoader_SetSecureState / XLoader_SecureClear
    hw,         \* eFuse bits and boot header fields the classifier reads
    ppk,        \* the calls of XLoader_CheckNonZeroPpk that returned
    ss,         \* locals of XLoader_SetSecureState
    rot,        \* secure state registers and the two static mirrors
    RegLog,     \* Xil_SecureOut32 calls, in call order
    clr,        \* locals and return value of XLoader_SecureClear
    fpc,        \* position in XPmRepair_Fpx
    fpx,        \* arguments and locals of XPmRepair_Fpx
    BisrLog     \* XPmBisr_CopyStandard calls, in call order

loaderVars == <<pc, SecurePtr, PdiPtr, PrtnHdr, InitStatus, InitCalls, sc, pcp,
                flash, pmcram, ddr, dma, PrtnLen, Tamper, DevLog, PrcLog,
                ClrCalls>>
rotVars == <<rpc, hw, ppk, ss, rot, RegLog, clr>>
repairVars == <<fpc, fpx, BisrLog>>
vars == <<loaderVars, rotVars, repairVars>>

NullFn == "NULL"
AuthEncPrtnFn == "XLoader_ProcessAuthEncPrtn"
ChecksumPrtnFn == "XLoader_ProcessChecksumPrtn"

ZeroSecurePtr ==
    [ ChunkAddr |-> 0, NextChunkAddr |-> 0, BlockNum |-> 0,
      ProcessedLen |-> 0, RemainingDataLen |-> 0, SecureData |-> 0,
      SecureDataLen |-> 0, NextBlkAddr |-> 0, IsCdo |-> FALSE,
      IsCheckSumEnabled |-> FALSE, IsNextChunkCopyStarted |-> FALSE,
      DmaFlags |-> 0, PmcDmaInstPtr |-> FALSE, Sha3Hash |-> ZeroHash,
      ProcessPrtn |-> NullFn ]

\* What the caller's storage may hold before XLoader_SecureInit: anything.
\* Two representatives: all zero, and the leftovers of an earlier partition.
StaleSecurePtr ==
    [ ZeroSecurePtr EXCEPT !.ChunkAddr = XPLMI_PMCRAM_CHUNK_MEMORY_1,
                           !.BlockNum = 2,
                           !.IsNextChunkCopyStarted = TRUE,
                           !.IsCdo = TRUE,
                           !.ProcessedLen = XLOADER_SECURE_CHUNK_SIZE ]

ZeroSc == [ DestAddr |-> 0, Size |-> 0, Status |-> XST_FAILURE,
            ClrStatus |-> XST_FAILURE, ChunkLen |-> 0, Len |-> 0,
            LoadAddr |-> 0, LastChunk |-> FALSE ]

\* Hashed and Cmp keep what the verifier did: the ranges it fed to the SHA3
\* engine and the two outcomes of the hash comparison.
ZeroPcp == [ Status |-> XST_FAILURE, SrcAddr |-> 0, DataAddr |-> 0,
             BlockSize |-> 0, Last |-> FALSE, Hashed |-> <<>>, Cmp |-> <<>> ]

NoXfer == [ active |-> FALSE, src |-> 0, dst |-> 0, len |-> 0 ]

PmcRamAddrs == 0..(2 * XLOADER_SECURE_CHUNK_SIZE - 1)
DdrAddrs == 0..(MaxSize + XIH_PRTN_WORD_LEN - 1)

(***************************************************************************)
(* Secure state of boot: eFuse layout, state values, registers (scaled;    *)
(* the headers that define them are not part of the sources at hand).      *)
(***************************************************************************)
XLOADER_EFUSE_PPK0_START_OFFSET == 8
XLOADER_EFUSE_PPK2_END_OFFSET == 16
XLOADER_ERR_GLITCH_DETECTED == 11
XLOADER_ERR_HWROT_BH_AUTH_NOT_ALLOWED == 12
XLOADER_ERR_SECURE_CLEAR_FAIL == 13

XPLMI_RTCFG_SECURESTATE_AHWROT == 165
XPLMI_RTCFG_SECURESTATE_SHWROT == 150
XPLMI_RTCFG_SECURESTATE_EMUL_AHWROT == 90
XPLMI_RTCFG_SECURESTATE_EMUL_SHWROT == 105
XPLMI_RTCFG_SECURESTATE_NONSECURE == 210

XPLMI_RTCFG_SECURESTATE_AHWROT_ADDR == 1
XPLMI_RTCFG_SECURESTATE_SHWROT_ADDR == 2
XLOADER_SHA3_RESET_REG == 4
XLOADER_SHA3_RESET_VAL == 1

\* Largest value a faulted scan index is given.
MaxIndex == 26

PpkAddrs ==
    { a \in XLOADER_EFUSE_PPK0_START_OFFSET..XLOADER_EFUSE_PPK2_END_OFFSET :
         (a - XLOADER_EFUSE_PPK0_START_OFFSET) % XIH_PRTN_WORD_LEN = 0 }
RegAddrs == {XPLMI_RTCFG_SECURESTATE_AHWROT_ADDR,
             XPLMI_RTCFG_SECURESTATE_SHWROT_ADDR, XLOADER_SHA3_RESET_REG}

NoHw == [ Ppk |-> [a \in PpkAddrs |-> 0], BhAuth |-> FALSE, DecOnly |-> 0,
          PlmKeySrc |-> 0, SecureExclude |-> FALSE ]
XIH_BH_IMG_ATTRB_BH_AUTH_VALUE == 3
\* GlitchErrs counts the calls that returned the glitch-detected error.
NoPpk == [ Calls |-> 0, Index |-> 0, Status |-> XST_FAILURE,
           Glitched |-> FALSE, GlitchErrs |-> 0 ]
ZeroSs == [ Status |-> XST_FAILURE, StatusTmp |-> XST_FAILURE,
            AHWRoT |-> XPLMI_RTCFG_SECURESTATE_AHWROT,
            SHWRoT |-> XPLMI_RTCFG_SECURESTATE_SHWROT ]
\* Mutant: the encryption mirror starts as Non Secure.
InitRot_NonSecure == [ Reg |-> [a \in RegAddrs |-> 0],
                       SecureStateAHWRoT |-> XPLMI_RTCFG_SECURESTATE_AHWROT,
                       SecureStateSHWRoT |->
                             XPLMI_RTCFG_SECURESTATE_NONSECURE ]
\* Static initialisers of the mirrors; the registers hold nothing yet.
InitRot == [ Reg |-> [a \in RegAddrs |-> 0],
             SecureStateAHWRoT |-> XPLMI_RTCFG_SECURESTATE_AHWROT,
             SecureStateSHWRoT |-> XPLMI_RTCFG_SECURESTATE_SHWROT ]
ZeroClr == [ Status |-> XST_FAILURE, SStatus |-> XST_FAILURE,
             Teardown |-> XST_FAILURE ]

\* XPmRepair_Fpx as called with EfuseTagAddr and TagSize.
FpxCall(EfuseTagAddr, TagSize) ==
    [ Arg |-> [ EfuseTagAddr |-> EfuseTagAddr, TagSize |-> TagSize ],
      EfuseTagAddr |-> EfuseTagAddr, TagSize |-> TagSize, i |-> 0,
      TempTagSize |-> 0, TagDataAddr |-> 0, Status |-> XST_FAILURE ]

\* The repair is not running.
RepairIdle ==
    /\ fpc = "Idle"
    /\ fpx = FpxCall(0, 0)
    /\ BisrLog = <<>>

\* The classifier is not running; the build has the secure code or not.
RotIdle ==
    /\ rpc = "Idle"
    /\ hw \in {NoHw, [NoHw EXCEPT !.SecureExclude = TRUE]}
    /\ ppk = NoPpk
    /\ ss = ZeroSs
    /\ rot = InitRot
    /\ RegLog = <<>>
    /\ clr = ZeroClr

Init ==
    /\ RotIdle
    /\ RepairIdle
    /\ pc = "Start"
    /\ SecurePtr \in {ZeroSecurePtr, StaleSecurePtr}
    /\ PdiPtr = [ PdiType |-> "FULL", CopyToMem |-> FALSE, CopyToMemAddr |-> 0,
                  FlashOfstAddr |-> 0 ]
    /\ PrtnLen \in 0..MaxSize
    /\ Tamper \in (0..(PrtnLen - 1)) \cup {NoTamper}
    /\ PrtnHdr \in [ ChecksumType : {0, XIH_PH_ATTRB_HASH_SHA3, 1},
                     ChecksumWordOfst : {0},
                     DataWordOfst : {HashWords} ]
    /\ InitStatus = XST_FAILURE
    /\ InitCalls = <<>>
    /\ sc = ZeroSc
    /\ pcp = ZeroPcp
    /\ flash = FlashImage(PrtnLen, Tamper)
    /\ pmcram = [a \in PmcRamAddrs |-> StaleByte]
    /\ ddr = [a \in DdrAddrs |-> StaleByte]
    /\ dma = NoXfer
    /\ DevLog = <<>>
    /\ PrcLog = <<>>
    /\ ClrCalls = <<>>


(***************************************************************************)
(* Memory helpers.                                                         *)
(***************************************************************************)
\* Bytes [addr, addr+len) of a memory given as a function of the address.
RdMem(mem, addr, len) == [i \in 1..len |-> mem[addr + i - 1]]
\* Bytes [addr, addr+len) of the boot medium (a sequence, address 0 first).
RdFlash(addr, len) == [i \in 1..len |-> flash[addr + i]]
\* mem with data written at [addr, addr+Len(data)).
WrMem(mem, addr, data) ==
    [a \in DOMAIN mem |->
        IF a >= addr /\ a < addr + Len(data) THEN data[a - addr + 1]
        ELSE mem[a]]

(***************************************************************************)
(* XLoader_ChecksumInit: the status and the context it leaves, for the     *)
(* status CopySt of its DeviceCopy call.                                   *)
(***************************************************************************)
\* Mutant: every declared checksum type is taken for SHA3.
ChecksumTypeSupported_Any(ChecksumType) == TRUE

\* Only SHA3 checksum is supported.
ChecksumTypeSupported(ChecksumType) == ChecksumType = XIH_PH_ATTRB_HASH_SHA3

ChecksumInit(sp, pdi, hdr, CopySt) ==
    LET ChecksumOffset ==
            pdi.FlashOfstAddr + hdr.ChecksumWordOfst * XIH_PRTN_WORD_LEN
        hash == RdFlash(ChecksumOffset, XLOADER_SHA3_LEN)
    IN  IF hdr.ChecksumType = 0
        THEN [ Status |-> XST_SUCCESS, sp |-> sp, pdi |-> pdi ]
        ELSE IF ~ChecksumTypeSupported(hdr.ChecksumType)
        THEN [ Status |-> XPlmi_UpdateStatus(
                              XLOADER_ERR_INIT_INVALID_CHECKSUM_TYPE, 0),
               sp |-> sp, pdi |-> pdi ]
        ELSE LET sp1 == [sp EXCEPT !.IsCheckSumEnabled = TRUE]
                 toCtx == pdi.PdiType = "RESTORE" \/ ~pdi.CopyToMem
                 sp2 == IF toCtx /\ CopySt = XST_SUCCESS
                        THEN [sp1 EXCEPT !.Sha3Hash = hash] ELSE sp1
                 pdi2 == IF pdi.PdiType = "RESTORE" \/ pdi.CopyToMem
                         THEN [pdi EXCEPT !.CopyToMemAddr =
                                              @ + XLOADER_SHA3_LEN]
                         ELSE pdi
             IN  IF CopySt # XST_SUCCESS
                 THEN [ Status |-> XPlmi_UpdateStatus(
                                       XLOADER_ERR_INIT_CHECKSUM_COPY_FAIL,
                                       CopySt),
                        sp |-> sp2, pdi |-> pdi2 ]
                 ELSE [ Status |-> XST_SUCCESS,
                        sp |-> [sp2 EXCEPT !.ProcessPrtn = ChecksumPrtnFn],
                        pdi |-> pdi2 ]

(***************************************************************************)
(* XLoader_SecureInit.                                                     *)
(***************************************************************************)
PdiKinds ==
    { [ PdiType |-> "FULL", CopyToMem |-> FALSE, CopyToMemAddr |-> 0,
        FlashOfstAddr |-> 0 ],
      [ PdiType |-> "FULL", CopyToMem |-> TRUE, CopyToMemAddr |-> 0,
        FlashOfstAddr |-> 0 ],
      [ PdiType |-> "RESTORE", CopyToMem |-> FALSE, CopyToMemAddr |-> 0,
        FlashOfstAddr |-> 0 ] }

StatusPairs == {XST_SUCCESS, XST_FAILURE} \X {XST_SUCCESS, XST_FAILURE}

\* XLoader_SecureInit returns Status, leaving the context sp and the PDI pdi.
InitReturn(Status, sp, pdi) ==
    /\ SecurePtr' = sp
    /\ PdiPtr' = pdi
    /\ InitStatus' = Status
    /\ pc' = IF Status = XST_SUCCESS THEN "Ready" ELSE "InitFailed"

\* The context after the two XPlmi_MemSetBytes calls and the assignments
\* that follow them.
\* Mutant: the processor bound for an earlier partition is not cleared.
InitFields_StaleBinding(DmaInst) ==
    [ZeroSecurePtr EXCEPT !.PmcDmaInstPtr = DmaInst,
                          !.ProcessPrtn = ChecksumPrtnFn]

InitFields(DmaInst) ==
    [ZeroSecurePtr EXCEPT !.ChunkAddr = XPLMI_PMCRAM_CHUNK_MEMORY,
                          !.NextChunkAddr = XPLMI_PMCRAM_CHUNK_MEMORY,
                          !.BlockNum = 0,
                          !.ProcessedLen = 0,
                          !.DmaFlags = 0,
                          !.PmcDmaInstPtr = DmaInst]

\* The status after the doubled XLoader_SecureAuthInit and
\* XLoader_SecureEncInit calls; each pair is (Status, StatusTmp).
AuthEncInitStatus(Auth, Enc) ==
    IF Auth[1] # XST_SUCCESS /\ Auth[2] # XST_SUCCESS THEN Auth[1] ELSE Enc[1]

\* XLoader_SecureAuthInit and XLoader_SecureEncInit are external: they
\* leave the processor as it is or bind the one for authenticated and
\* encrypted partitions.
AuthEncBindings(sp) == {sp.ProcessPrtn, AuthEncPrtnFn}

\* Mutant: the two init functions are called only without checksum mode.
AuthEncAttempted_NoChecksum(sp, SecureExclude) ==
    (~SecureExclude) /\ (~sp.IsCheckSumEnabled)

\* Whether XLoader_SecureAuthInit is called after XLoader_ChecksumInit
\* returned success: in every build that has the secure code.
AuthEncAttempted(sp, SecureExclude) == ~SecureExclude

ChecksumInitFn == "XLoader_ChecksumInit"
SecureAuthInitFn == "XLoader_SecureAuthInit"
SecureEncInitFn == "XLoader_SecureEncInit"

\* The calls after XLoader_ChecksumInit, for the two results Auth of
\* XLoader_SecureAuthInit.
AuthEncCalls(Auth) ==
    IF Auth[1] # XST_SUCCESS /\ Auth[2] # XST_SUCCESS
    THEN <<SecureAuthInitFn>> ELSE <<SecureAuthInitFn, SecureEncInitFn>>

SecureInit ==
    /\ pc = "Start"
    /\ UNCHANGED <<rotVars, repairVars>>
    /\ \E pdi \in PdiKinds, MemSt \in {XST_SUCCESS, XST_FAILURE} :
          IF MemSt # XST_SUCCESS
          THEN /\ InitReturn(XPlmi_UpdateStatus(XLOADER_ERR_MEMSET,
                                                XLOADER_ERR_MEMSET_SECURE_PTR),
                             SecurePtr, pdi)
               /\ InitCalls' = <<>>
          ELSE \E TmpMemSt \in {XST_SUCCESS, XST_FAILURE} :
             IF TmpMemSt # XST_SUCCESS
             THEN /\ InitReturn(XPlmi_UpdateStatus(
                                    XLOADER_ERR_MEMSET,
                                    XLOADER_ERR_MEMSET_SECURE_PTR),
                                ZeroSecurePtr, pdi)
                  /\ InitCalls' = <<>>
             ELSE \E DmaInst \in BOOLEAN :
                IF ~DmaInst
                THEN /\ InitReturn(XPlmi_UpdateStatus(XLOADER_ERR_INIT_GET_DMA,
                                                      0),
                                   InitFields(DmaInst), pdi)
                     /\ InitCalls' = <<>>
                ELSE \E CopySt \in {XST_SUCCESS, XST_FAILURE} :
                   LET ck == ChecksumInit(InitFields(DmaInst), pdi, PrtnHdr,
                                          CopySt)
                   IN  IF ck.Status # XST_SUCCESS
                       THEN /\ InitReturn(ck.Status, ck.sp, ck.pdi)
                            /\ InitCalls' = <<ChecksumInitFn>>
                       ELSE
                          IF ~AuthEncAttempted(ck.sp, hw.SecureExclude)
                          THEN /\ InitReturn(ck.Status, ck.sp, ck.pdi)
                               /\ InitCalls' = <<ChecksumInitFn>>
                          ELSE \E Auth \in StatusPairs, Enc \in StatusPairs,
                                  Fn \in AuthEncBindings(ck.sp) :
                                  /\ InitReturn(
                                        AuthEncInitStatus(Auth, Enc),
                                        [ck.sp EXCEPT !.ProcessPrtn = Fn],
                                        ck.pdi)
                                  /\ InitCalls' = <<ChecksumInitFn>>
                                                    \o AuthEncCalls(Auth)
    /\ UNCHANGED <<PrtnHdr, sc, pcp, flash, pmcram, ddr, dma, PrtnLen, Tamper,
                   DevLog, PrcLog, ClrCalls>>

(***************************************************************************)
(* The data mover (PdiPtr->MetaHdr.DeviceCopy), an external collaborator:  *)
(* a blocking copy moves the bytes, an initiate-only call starts a         *)
(* transfer, a wait-only call completes the transfer that was started.     *)
(***************************************************************************)
XPLMI_DEVICE_COPY_STATE_BLK == "BLK"
XPLMI_DEVICE_COPY_STATE_INITIATE == "INITIATE"
XPLMI_DEVICE_COPY_STATE_WAIT_DONE == "WAIT_DONE"

CopyStatuses == {XST_SUCCESS, XST_FAILURE}

\* The chunk memory after DeviceCopy(src, dst, len, flag) returned st.
DeviceCopyMem(src, dst, len, flag, st) ==
    IF st # XST_SUCCESS THEN pmcram
    ELSE IF flag = XPLMI_DEVICE_COPY_STATE_BLK
    THEN WrMem(pmcram, dst, RdFlash(src, len))
    ELSE IF flag = XPLMI_DEVICE_COPY_STATE_WAIT_DONE /\ dma.active
    THEN WrMem(pmcram, dma.dst, RdFlash(dma.src, dma.len))
    ELSE pmcram

\* The transfer in flight after DeviceCopy(src, dst, len, flag) returned st.
DeviceCopyDma(src, dst, len, flag, st) ==
    IF flag = XPLMI_DEVICE_COPY_STATE_WAIT_DONE THEN NoXfer
    ELSE IF flag = XPLMI_DEVICE_COPY_STATE_INITIATE /\ st = XST_SUCCESS
    THEN [ active |-> TRUE, src |-> src, dst |-> dst, len |-> len ]
    ELSE dma

CopyEvent(flag, src, dst, len, st) ==
    [ ev |-> "copy", flag |-> flag, src |-> src, dst |-> dst, len |-> len,
      blk |-> SecurePtr.BlockNum, st |-> st ]

\* flag tells whether a call of the SHA3 engine was made to fail.
VerifyEvent(addr, len, ShaFail, st) ==
    [ ev |-> "verify", flag |-> IF ShaFail = "none" THEN "none" ELSE "fault",
      src |-> addr, dst |-> 0, len |-> len,
      blk |-> SecurePtr.BlockNum, st |-> st ]

\* The processor call that returns Status, leaving the context sp.
PrcRet(Status, sp) ==
    [ blk |-> SecurePtr.BlockNum, Rem |-> SecurePtr.RemainingDataLen,
      LoadAddr |-> sc.LoadAddr, BlockSize |-> pcp.BlockSize,
      Last |-> pcp.Last, Status |-> Status,
      ProcessedLen |-> sp.ProcessedLen, SecureDataLen |-> sp.SecureDataLen ]

\* Mutant: the driver goes on with the next chunk whatever the status.
AfterPrtn_Continue(Status) == "SC_Advance"

\* XLoader_SecureCopy: where it goes after the processor returned Status.
AfterPrtn(Status) == IF Status # XST_SUCCESS THEN "SC_End" ELSE "SC_Advance"

(***************************************************************************)
(* XLoader_SecureCopy, entry: the caller passes the context of a           *)
(* successful XLoader_SecureInit (with IsCdo as the caller set it), the    *)
(* load address and the partition size.                                    *)
(***************************************************************************)
DestAddrs == {0, XIH_PRTN_WORD_LEN}

SecureCopy ==
    /\ pc = "Ready"
    /\ UNCHANGED <<rotVars, repairVars>>
    /\ SecurePtr.ProcessPrtn = ChecksumPrtnFn
    /\ \E DestAddr \in DestAddrs, IsCdo \in BOOLEAN :
          /\ SecurePtr' = [SecurePtr EXCEPT !.IsCdo = IsCdo]
          /\ sc' = [ DestAddr |-> DestAddr, Size |-> PrtnLen,
                     Status |-> XST_FAILURE, ClrStatus |-> XST_FAILURE,
                     ChunkLen |-> XLOADER_SECURE_CHUNK_SIZE, Len |-> PrtnLen,
                     LoadAddr |-> DestAddr, LastChunk |-> FALSE ]
    /\ pc' = "SC_Loop"
    /\ UNCHANGED <<PdiPtr, PrtnHdr, InitStatus, InitCalls,
                   pcp, flash, pmcram, ddr, dma,
                   PrtnLen, Tamper, DevLog, PrcLog, ClrCalls>>

(***************************************************************************)
(* XLoader_SecureCopy, loop head: the test, the last-chunk update, and     *)
(* the call of the processor up to its call of XLoader_SecureChunkCopy.    *)
(***************************************************************************)
LastChunkOf(RemLen, ChunkLen, LastChunk) ==
    IF RemLen <= ChunkLen THEN TRUE ELSE LastChunk
ChunkLenOf(RemLen, ChunkLen) == IF RemLen <= ChunkLen THEN RemLen ELSE ChunkLen

\* Mutant: every block is read from the start of the partition data.
BlockSrcAddr_Base(sp) ==
    PdiPtr.FlashOfstAddr + PrtnHdr.DataWordOfst * XIH_PRTN_WORD_LEN

\* XLoader_ProcessChecksumPrtn: the source address of the block.
BlockSrcAddr(sp) ==
    IF sp.BlockNum = 0
    THEN PdiPtr.FlashOfstAddr + PrtnHdr.DataWordOfst * XIH_PRTN_WORD_LEN
    ELSE sp.NextBlkAddr

SC_Loop ==
    /\ pc = "SC_Loop"
    /\ UNCHANGED <<rotVars, repairVars>>
    /\ IF sc.Len > 0
       THEN LET last == LastChunkOf(sc.Len, sc.ChunkLen, sc.LastChunk)
                clen == ChunkLenOf(sc.Len, sc.ChunkLen)
            IN  /\ sc' = [sc EXCEPT !.LastChunk = last, !.ChunkLen = clen]
                /\ SecurePtr' = [SecurePtr EXCEPT !.RemainingDataLen = sc.Len,
                                                  !.ProcessedLen = 0]
                /\ pcp' = [ Status |-> XST_FAILURE,
                            SrcAddr |-> BlockSrcAddr(SecurePtr),
                            DataAddr |-> 0, BlockSize |-> clen,
                            Last |-> last, Hashed |-> <<>>, Cmp |-> <<>> ]
                /\ pc' = "ChunkCopy"
       ELSE /\ pc' = "SC_End"
            /\ UNCHANGED <<sc, SecurePtr, pcp>>
    /\ UNCHANGED <<PdiPtr, PrtnHdr, InitStatus, InitCalls,
                   flash, pmcram, ddr, dma,
                   PrtnLen, Tamper, DevLog, PrcLog, ClrCalls>>

(***************************************************************************)
(* XLoader_SecureChunkCopy up to its call of XLoader_StartNextChunkCopy.   *)
(***************************************************************************)
\* Mutant: the chunk copy always waits.
ChunkCopyFlags_AlwaysWait(sp) == XPLMI_DEVICE_COPY_STATE_WAIT_DONE

ChunkCopyFlags(sp) ==
    IF sp.IsNextChunkCopyStarted
    THEN XPLMI_DEVICE_COPY_STATE_WAIT_DONE
    ELSE XPLMI_DEVICE_COPY_STATE_BLK

\* Mutant: the next chunk's copy is started for block 0 as well.
StartsNext_FromBlock0(Last, BlockNum) == ~Last

\* Whether XLoader_SecureChunkCopy goes on to start the next chunk's copy.
StartsNext(Last, BlockNum) == (~Last) /\ (BlockNum # 0)

SecureChunkCopy ==
    /\ pc = "ChunkCopy"
    /\ UNCHANGED <<rotVars, repairVars>>
    /\ \E st \in CopyStatuses :
          LET Flags == ChunkCopyFlags(SecurePtr)
              TotalSize == pcp.BlockSize
          IN  /\ SecurePtr' = [SecurePtr EXCEPT !.IsNextChunkCopyStarted = FALSE]
              /\ pmcram' = DeviceCopyMem(pcp.SrcAddr, SecurePtr.ChunkAddr,
                                         TotalSize, Flags, st)
              /\ dma' = DeviceCopyDma(pcp.SrcAddr, SecurePtr.ChunkAddr,
                                      TotalSize, Flags, st)
              /\ DevLog' = Append(DevLog,
                                  CopyEvent(Flags, pcp.SrcAddr,
                                            SecurePtr.ChunkAddr, TotalSize, st))
              /\ IF st # XST_SUCCESS
                 THEN LET Status == XPlmi_UpdateStatus(
                                        XLOADER_ERR_DATA_COPY_FAIL, st)
                      IN  /\ pcp' = [pcp EXCEPT !.Status = Status]
                          /\ sc' = [sc EXCEPT !.Status = Status]
                          /\ PrcLog' = Append(PrcLog, PrcRet(Status, SecurePtr'))
                          /\ pc' = AfterPrtn(Status)
                 ELSE /\ pcp' = [pcp EXCEPT !.Status = st]
                      /\ UNCHANGED <<sc, PrcLog>>
                      /\ pc' = IF StartsNext(pcp.Last, SecurePtr.BlockNum)
                               THEN "StartNext" ELSE "DmaXfr"
    /\ UNCHANGED <<PdiPtr, PrtnHdr, InitStatus, InitCalls,
                   flash, ddr, PrtnLen, Tamper,
                   ClrCalls>>

(***************************************************************************)
(* XLoader_StartNextChunkCopy, and the return of XLoader_SecureChunkCopy.  *)
(***************************************************************************)
\* Mutant: the next chunk is fetched into the buffer in use.
OtherChunkAddr_Same(ChunkAddr) == ChunkAddr

OtherChunkAddr(ChunkAddr) ==
    IF ChunkAddr = XPLMI_PMCRAM_CHUNK_MEMORY
    THEN XPLMI_PMCRAM_CHUNK_MEMORY_1
    ELSE XPLMI_PMCRAM_CHUNK_MEMORY

\* Mutant: the next chunk is always fetched at full chunk length.
NextCopyLen_Full(TotalLen, ChunkLen) == ChunkLen

NextCopyLen(TotalLen, ChunkLen) ==
    IF TotalLen <= ChunkLen THEN TotalLen ELSE ChunkLen

\* Mutant: the block in the chunk buffer is fetched once more.
PrefetchSrc_Same(SrcAddr, TotalSize) == SrcAddr

\* The source address XLoader_SecureChunkCopy passes as NextBlkAddr.
PrefetchSrc(SrcAddr, TotalSize) == SrcAddr + TotalSize

\* Mutant: the status of the initiate-only call is dropped.
InitiateStatus_Ignored(st) == XST_SUCCESS

\* The status XLoader_StartNextChunkCopy returns for the status st of its
\* DeviceCopy call.
InitiateStatus(st) ==
    IF st # XST_SUCCESS
    THEN XPlmi_UpdateStatus(XLOADER_ERR_DATA_COPY_FAIL, st) ELSE st

StartNextChunkCopy ==
    /\ pc = "StartNext"
    /\ UNCHANGED <<rotVars, repairVars>>
    /\ \E st \in CopyStatuses :
          LET TotalSize == pcp.BlockSize
              TotalLen == SecurePtr.RemainingDataLen - TotalSize
              NextBlkAddr == PrefetchSrc(pcp.SrcAddr, TotalSize)
              NextChunkAddr == OtherChunkAddr(SecurePtr.ChunkAddr)
              CopyLen == NextCopyLen(TotalLen, pcp.BlockSize)
              Flag == XPLMI_DEVICE_COPY_STATE_INITIATE
          IN  /\ SecurePtr' = [SecurePtr EXCEPT
                                  !.NextChunkAddr = NextChunkAddr,
                                  !.IsNextChunkCopyStarted = TRUE]
              /\ dma' = DeviceCopyDma(NextBlkAddr, NextChunkAddr, CopyLen,
                                      Flag, st)
              /\ DevLog' = Append(DevLog,
                                  CopyEvent(Flag, NextBlkAddr, NextChunkAddr,
                                            CopyLen, st))
              /\ IF InitiateStatus(st) # XST_SUCCESS
                 THEN LET Status == InitiateStatus(st)
                      IN  /\ pcp' = [pcp EXCEPT !.Status = Status]
                          /\ sc' = [sc EXCEPT !.Status = Status]
                          /\ PrcLog' = Append(PrcLog, PrcRet(Status, SecurePtr'))
                          /\ pc' = AfterPrtn(Status)
                 ELSE /\ pcp' = [pcp EXCEPT !.Status = st]
                      /\ UNCHANGED <<sc, PrcLog>>
                      /\ pc' = "DmaXfr"
    /\ UNCHANGED <<PdiPtr, PrtnHdr, InitStatus, InitCalls,
                   flash, pmcram, ddr, PrtnLen,
                   Tamper, ClrCalls>>

(***************************************************************************)
(* XLoader_ProcessChecksumPrtn after the chunk copy: the secure data       *)
(* range and, for a raw image, the transfer to the load address.           *)
(***************************************************************************)
SecureDataLenOf(TotalSize, Last) ==
    IF ~Last THEN TotalSize - XLOADER_SHA3_LEN ELSE TotalSize

\* XPlmi_DmaXfr(src, dest, words): the load region after it returned st.
DmaXfrMem(src, dest, words, st) ==
    IF st # XST_SUCCESS THEN ddr
    ELSE WrMem(ddr, dest, RdMem(pmcram, src, words * XIH_PRTN_WORD_LEN))

PCP_CopyToDest ==
    /\ pc = "DmaXfr"
    /\ UNCHANGED <<rotVars, repairVars>>
    /\ LET sdl == SecureDataLenOf(pcp.BlockSize, pcp.Last)
           sp1 == [SecurePtr EXCEPT !.SecureData = SecurePtr.ChunkAddr,
                                    !.SecureDataLen = sdl]
       IN  /\ SecurePtr' = sp1
           /\ IF SecurePtr.IsCdo
              THEN /\ pcp' = [pcp EXCEPT !.DataAddr = SecurePtr.ChunkAddr]
                   /\ UNCHANGED <<ddr, sc, PrcLog>>
                   /\ pc' = "Verify"
              ELSE \E st \in CopyStatuses :
                      /\ ddr' = DmaXfrMem(sp1.SecureData, sc.LoadAddr,
                                          sdl \div XIH_PRTN_WORD_LEN, st)
                      /\ IF st # XST_SUCCESS
                         THEN LET Status == XPlmi_UpdateStatus(
                                                XLOADER_ERR_DMA_TRANSFER, st)
                              IN  /\ pcp' = [pcp EXCEPT !.Status = Status]
                                  /\ sc' = [sc EXCEPT !.Status = Status]
                                  /\ PrcLog' = Append(PrcLog,
                                                      PrcRet(Status, sp1))
                                  /\ pc' = AfterPrtn(Status)
                         ELSE /\ pcp' = [pcp EXCEPT !.Status = st,
                                                    !.DataAddr = sc.LoadAddr]
                              /\ UNCHANGED <<sc, PrcLog>>
                              /\ pc' = "Verify"
    /\ UNCHANGED <<PdiPtr, PrtnHdr, InitStatus, InitCalls,
                   flash, pmcram, dma, PrtnLen,
                   Tamper, DevLog, ClrCalls>>

(***************************************************************************)
(* XLoader_VerifyHashNUpdateNext.                                          *)
(***************************************************************************)
\* The bytes the SHA3 engine is fed: one update of DataLen bytes at DataAddr,
\* and for a non-final block of a raw image a second update of the
\* XLOADER_SHA3_LEN bytes at HashAddr.
HashRange(mem, addr, len) == [ mem |-> mem, addr |-> addr, len |-> len ]
\* The memory DataAddr points into: the chunk buffer for a CDO, the load
\* region for a raw image.
DataMem(sp) == IF sp.IsCdo THEN "pmcram" ELSE "ddr"

\* Mutant: DataLen stays Size for a CDO.
HashedRanges_NoCdoTail(sp, DataAddr, Size, Last) ==
    LET HashAddr == sp.ChunkAddr + Size
    IN  IF (~Last) /\ (~sp.IsCdo)
        THEN << HashRange(DataMem(sp), DataAddr, Size),
                HashRange("pmcram", HashAddr, XLOADER_SHA3_LEN) >>
        ELSE << HashRange(DataMem(sp), DataAddr, Size) >>

\* The XSecure_Sha3Update64Bit calls, in call order.
HashedRanges(sp, DataAddr, Size, Last) ==
    LET HashAddr == sp.ChunkAddr + Size
        DataLen == IF sp.IsCdo /\ ~Last THEN Size + XLOADER_SHA3_LEN ELSE Size
    IN  IF (~Last) /\ (~sp.IsCdo)
        THEN << HashRange(DataMem(sp), DataAddr, DataLen),
                HashRange("pmcram", HashAddr, XLOADER_SHA3_LEN) >>
        ELSE << HashRange(DataMem(sp), DataAddr, DataLen) >>

RangeBytes(r) ==
    RdMem(IF r.mem = "pmcram" THEN pmcram ELSE ddr, r.addr, r.len)

HashedBytes(sp, DataAddr, Size, Last) ==
    LET rs == HashedRanges(sp, DataAddr, Size, Last)
    IN  IF Len(rs) = 2 THEN RangeBytes(rs[1]) \o RangeBytes(rs[2])
        ELSE RangeBytes(rs[1])

\* Mutant: the outcome of the comparison is lost.
HashCmp_Ignore(ExpHash, BlkHash) == XST_SUCCESS
\* Mutant: the comparison runs over no bytes, only the lengths are checked.
HashCmp_NoBytes(ExpHash, BlkHash) ==
    IF Len(ExpHash) = Len(BlkHash) THEN XST_SUCCESS ELSE XST_FAILURE

\* Xil_SMemCmp_CT on two hashes.
HashCmp(ExpHash, BlkHash) == IF ExpHash = BlkHash THEN XST_SUCCESS ELSE XST_FAILURE

\* XSECURE_TEMPORAL_IMPL: the comparison is made twice, into Status and
\* StatusTmp; a fault ("Cmp", "CmpTmp") makes one of the two report equal.
CmpOutcomes(ExpHash, BlkHash, Fault) ==
    << IF Fault = "Cmp" THEN XST_SUCCESS ELSE HashCmp(ExpHash, BlkHash),
       IF Fault = "CmpTmp" THEN XST_SUCCESS ELSE HashCmp(ExpHash, BlkHash) >>

\* Mutant: the chunk fails only if both outcomes report unequal.
CmpFailed_Both(Status, StatusTmp) ==
    (Status # XST_SUCCESS) /\ (StatusTmp # XST_SUCCESS)

CmpFailed(Status, StatusTmp) ==
    (Status # XST_SUCCESS) \/ (StatusTmp # XST_SUCCESS)

\* Mutant: the next expected hash is taken from the start of the chunk.
ExpHashAddr_ChunkStart(sp, Size) == sp.ChunkAddr

\* HashAddr: where the hash of the next chunk lies in the chunk buffer.
ExpHashAddr(sp, Size) == sp.ChunkAddr + Size

ShaSteps == {"none", "Initialize", "Start", "Update", "UpdateNext", "Finish",
             "Cmp", "CmpTmp"}

\* The status and the expected hash XLoader_VerifyHashNUpdateNext leaves;
\* ShaFail names the call of the SHA3 engine that fails, if any.
VerifyHashNUpdateNext(sp, DataAddr, Size, Last, ShaFail) ==
    LET HashAddr == ExpHashAddr(sp, Size)
        BlkHash == Sha3Digest(HashedBytes(sp, DataAddr, Size, Last))
        cmp == CmpOutcomes(sp.Sha3Hash, BlkHash, ShaFail)
        fed == HashedRanges(sp, DataAddr, Size, Last)
        secondUpdate == (~Last) /\ (~sp.IsCdo)
    IN  IF ~sp.PmcDmaInstPtr
        THEN [ Status |-> XST_FAILURE, Sha3Hash |-> sp.Sha3Hash,
               Hashed |-> <<>>, Cmp |-> <<>> ]
        ELSE IF ShaFail \in {"Initialize", "Start", "Update", "Finish"}
                \/ (ShaFail = "UpdateNext" /\ secondUpdate)
        THEN [ Status |-> XPlmi_UpdateStatus(XLOADER_ERR_PRTN_HASH_CALC_FAIL,
                                             XST_FAILURE),
               Sha3Hash |-> sp.Sha3Hash, Hashed |-> <<>>, Cmp |-> <<>> ]
        ELSE IF CmpFailed(cmp[1], cmp[2])
        THEN [ Status |-> XPlmi_UpdateStatus(
                              XLOADER_ERR_PRTN_HASH_COMPARE_FAIL, cmp[1]),
               Sha3Hash |-> sp.Sha3Hash, Hashed |-> fed, Cmp |-> cmp ]
        ELSE IF ~Last
        THEN [ Status |-> XST_SUCCESS,
               Sha3Hash |-> RdMem(pmcram, HashAddr, XLOADER_SHA3_LEN),
               Hashed |-> fed, Cmp |-> cmp ]
        ELSE [ Status |-> XST_SUCCESS, Sha3Hash |-> sp.Sha3Hash,
               Hashed |-> fed, Cmp |-> cmp ]

\* Mutant: the processor reports the payload length, without the hash.
ProcessedLenOf_Payload(TotalSize) == TotalSize - XLOADER_SHA3_LEN

\* XLoader_ProcessChecksumPrtn: the length it reports as processed.
ProcessedLenOf(TotalSize) == TotalSize

\* XLoader_ProcessChecksumPrtn: the verification and the block bookkeeping.
PCP_Verify ==
    /\ pc = "Verify"
    /\ UNCHANGED <<rotVars, repairVars>>
    /\ \E ShaFail \in ShaSteps :
          LET TotalSize == pcp.BlockSize
              r == VerifyHashNUpdateNext(SecurePtr, pcp.DataAddr,
                                         SecurePtr.SecureDataLen, pcp.Last,
                                         ShaFail)
          IN  /\ DevLog' = Append(DevLog,
                                  VerifyEvent(pcp.DataAddr,
                                              SecurePtr.SecureDataLen,
                                              ShaFail, r.Status))
              /\ pcp' = [pcp EXCEPT
                            !.Status = r.Status,
                            !.Hashed = r.Hashed,
                            !.Cmp = r.Cmp]
              /\ SecurePtr' =
                    IF r.Status # XST_SUCCESS
                    THEN [SecurePtr EXCEPT !.Sha3Hash = r.Sha3Hash]
                    ELSE [SecurePtr EXCEPT
                             !.Sha3Hash = r.Sha3Hash,
                             !.NextBlkAddr = pcp.SrcAddr + TotalSize,
                             !.ProcessedLen = ProcessedLenOf(TotalSize),
                             !.BlockNum = @ + 1]
              /\ sc' = [sc EXCEPT !.Status = r.Status]
              /\ PrcLog' = Append(PrcLog, PrcRet(r.Status, SecurePtr'))
              /\ pc' = AfterPrtn(r.Status)
    /\ UNCHANGED <<PdiPtr, PrtnHdr, InitStatus, InitCalls,
                   flash, pmcram, ddr, dma,
                   PrtnLen, Tamper, ClrCalls>>

(***************************************************************************)
(* XLoader_SecureCopy after a successful processor call.                   *)
(***************************************************************************)
\* Mutant: the load address advances by the raw chunk length.
AdvanceLoadAddr_Raw(LoadAddr, sp) == LoadAddr + sp.ProcessedLen
\* Mutant: the remaining length shrinks by the payload length.
AdvanceLen_Payload(RemLen, sp) == RemLen - sp.SecureDataLen

\* Mutant: the chunk buffer in use is kept for the next chunk.
AdvanceChunkAddr_Stay(sp) == sp.ChunkAddr

\* The chunk buffer the next iteration uses.
AdvanceChunkAddr(sp) == sp.NextChunkAddr

AdvanceLoadAddr(LoadAddr, sp) == LoadAddr + sp.SecureDataLen
AdvanceLen(RemLen, sp) == RemLen - sp.ProcessedLen

SC_Advance ==
    /\ pc = "SC_Advance"
    /\ UNCHANGED <<rotVars, repairVars>>
    /\ sc' = [sc EXCEPT !.LoadAddr = AdvanceLoadAddr(sc.LoadAddr, SecurePtr),
                        !.Len = AdvanceLen(sc.Len, SecurePtr)]
    /\ SecurePtr' = [SecurePtr EXCEPT !.ChunkAddr = AdvanceChunkAddr(SecurePtr)]
    /\ pc' = "SC_Loop"
    /\ UNCHANGED <<PdiPtr, PrtnHdr, InitStatus, InitCalls,
                   pcp, flash, pmcram, ddr, dma,
                   PrtnLen, Tamper, DevLog, PrcLog, ClrCalls>>

(***************************************************************************)
(* XLoader_SecureCopy, END: the scrub of the destination on failure.       *)
(***************************************************************************)
\* XPlmi_InitNVerifyMem(addr, len): the memory after it returned st.
InitNVerifyMem(mem, addr, len, st) ==
    IF st # XST_SUCCESS THEN mem
    ELSE [a \in DOMAIN mem |->
             IF a >= addr /\ a < addr + len THEN ClearByte ELSE mem[a]]

\* Mutant: the scrub starts at the advanced load address and covers the
\* remaining length.
ClrRange_Remaining(s) == [ addr |-> s.LoadAddr, len |-> s.Len ]

\* The range XLoader_SecureCopy scrubs.
ClrRange(s) == [ addr |-> s.DestAddr, len |-> s.Size ]

\* Mutant: the two cleanup flags are exchanged.
TagStatus_Swapped(Status, ClrStatus) ==
    IF ClrStatus # XST_SUCCESS
    THEN BitOr(Status, XLOADER_SEC_BUF_CLEAR_SUCCESS)
    ELSE BitOr(Status, XLOADER_SEC_BUF_CLEAR_ERR)

\* The status XLoader_SecureCopy returns after a scrub that returned ClrStatus.
TagStatus(Status, ClrStatus) ==
    IF ClrStatus # XST_SUCCESS
    THEN BitOr(Status, XLOADER_SEC_BUF_CLEAR_ERR)
    ELSE BitOr(Status, XLOADER_SEC_BUF_CLEAR_SUCCESS)

\* Mutant: nothing is scrubbed at END.
NeedsClear_Never(Status) == FALSE

\* Whether XLoader_SecureCopy scrubs at END.
NeedsClear(Status) == Status # XST_SUCCESS

SC_End ==
    /\ pc = "SC_End"
    /\ UNCHANGED <<rotVars, repairVars>>
    /\ IF NeedsClear(sc.Status)
       THEN \E ClrStatus \in {XST_SUCCESS, XST_FAILURE} :
               LET r == ClrRange(sc)
               IN  /\ ddr' = InitNVerifyMem(ddr, r.addr, r.len, ClrStatus)
                   /\ ClrCalls' = Append(ClrCalls,
                                         [ addr |-> r.addr, len |-> r.len,
                                           st |-> ClrStatus ])
                   /\ sc' = [sc EXCEPT !.ClrStatus = ClrStatus,
                                       !.Status = TagStatus(sc.Status, ClrStatus)]
       ELSE UNCHANGED <<ddr, ClrCalls, sc>>
    /\ pc' = "SC_Done"
    /\ UNCHANGED <<SecurePtr, PdiPtr, PrtnHdr, InitStatus, InitCalls,
                   pcp, flash, pmcram,
                   dma, PrtnLen, Tamper, DevLog, PrcLog>>

Next ==
    \/ SecureInit
    \/ SecureCopy
    \/ SC_Loop
    \/ SecureChunkCopy
    \/ StartNextChunkCopy
    \/ PCP_CopyToDest
    \/ PCP_Verify
    \/ SC_Advance
    \/ SC_End

Spec == Init /\ [][Next]_vars

(***************************************************************************)
(* Vocabulary of the properties.                                           *)
(***************************************************************************)
Done == pc = "SC_Done"

PrcFailed == \E i \in 1..Len(PrcLog) : PrcLog[i].Status # XST_SUCCESS
AllPrcOk == \A i \in 1..Len(PrcLog) : PrcLog[i].Status = XST_SUCCESS

\* The status XLoader_SecureCopy holds at END: the last processor status, or
\* the initial failure value when the processor was never called.
PrimaryStatus ==
    IF PrcLog = <<>> THEN XST_FAILURE ELSE PrcLog[Len(PrcLog)].Status

ClrFlags == BitOr(XLOADER_SEC_BUF_CLEAR_ERR, XLOADER_SEC_BUF_CLEAR_SUCCESS)

DestRange == { a \in DdrAddrs : a >= sc.DestAddr /\ a < sc.DestAddr + sc.Size }

IsVerify(e) == e.ev = "verify"
IsCopyIn(e) ==
    /\ e.ev = "copy"
    /\ e.flag \in {XPLMI_DEVICE_COPY_STATE_BLK, XPLMI_DEVICE_COPY_STATE_WAIT_DONE}
IsInitiate(e) == e.ev = "copy" /\ e.flag = XPLMI_DEVICE_COPY_STATE_INITIATE
IsWait(e) == e.ev = "copy" /\ e.flag = XPLMI_DEVICE_COPY_STATE_WAIT_DONE

VerifyEvents == SelectSeq(DevLog, IsVerify)
CopyInEvents == SelectSeq(DevLog, IsCopyIn)

\* Flash address of block k, and its length in a partition of `size` bytes.
DataBase == PdiPtr.FlashOfstAddr + PrtnHdr.DataWordOfst * XIH_PRTN_WORD_LEN
BlockAddr(k) == DataBase + k * XLOADER_SECURE_CHUNK_SIZE
BlockLen(k, size) ==
    Min(size - k * XLOADER_SECURE_CHUNK_SIZE, XLOADER_SECURE_CHUNK_SIZE)

(***************************************************************************)
(* C1 (as amended).  When the processor fails in some iteration,           *)
(* XLoader_SecureCopy scrubs exactly once, over [DestAddr, DestAddr+Size)  *)
(* as passed by the caller, before it returns; after a successful scrub    *)
(* every byte of that range is the clear pattern; and the scrub is not     *)
(* invoked when Size > 0 and every chunk succeeded.                        *)
(***************************************************************************)
C1_ScrubOnFailure ==
    /\ Len(ClrCalls) <= 1
    /\ ~Done => ClrCalls = <<>>
    /\ Done =>
          /\ PrcFailed =>
                /\ Len(ClrCalls) = 1
                /\ ClrCalls[1].addr = sc.DestAddr
                /\ ClrCalls[1].len = PrtnLen
          /\ (ClrCalls # <<>> /\ ClrCalls[1].st = XST_SUCCESS) =>
                \A a \in DestRange : ddr[a] = ClearByte
          /\ (sc.Size > 0 /\ AllPrcOk) => ClrCalls = <<>>

\* C1 as stated: the scrub is never invoked when every chunk succeeded,
\* whatever the size.
C1_Original ==
    /\ C1_ScrubOnFailure
    /\ (Done /\ AllPrcOk) => ClrCalls = <<>>

\* A run that failed in its second or a later chunk and scrubbed with success.
C1_Witness ==
    /\ Done
    /\ PrcFailed
    /\ Len(PrcLog) >= 2
    /\ ClrCalls # <<>>
    /\ ClrCalls[1].st = XST_SUCCESS

(***************************************************************************)
(* C2.  A failed XLoader_SecureCopy returns a status that is not the       *)
(* success value: the primary status OR-ed with exactly one cleanup flag,  *)
(* the clear-failed flag exactly when the scrub failed and the             *)
(* clear-succeeded flag otherwise.  A successful one returns plain         *)
(* XST_SUCCESS and has not scrubbed.                                       *)
(***************************************************************************)
C2_StatusTagging ==
    Done =>
       IF PrimaryStatus = XST_SUCCESS
       THEN sc.Status = XST_SUCCESS /\ ClrCalls = <<>>
       ELSE LET flag == IF ClrCalls[1].st # XST_SUCCESS
                        THEN XLOADER_SEC_BUF_CLEAR_ERR
                        ELSE XLOADER_SEC_BUF_CLEAR_SUCCESS
            IN  /\ Len(ClrCalls) = 1
                /\ sc.Status # XST_SUCCESS
                /\ BitAnd(PrimaryStatus, ClrFlags) = 0
                /\ sc.Status = BitOr(PrimaryStatus, flag)
                /\ BitAnd(sc.Status, ClrFlags) = flag

\* A run in which the processor failed and the scrub failed as well.
C2_Witness ==
    /\ Done
    /\ PrcLog # <<>>
    /\ PrimaryStatus # XST_SUCCESS
    /\ ClrCalls # <<>>
    /\ ClrCalls[1].st # XST_SUCCESS
    /\ BitAnd(sc.Status, XLOADER_SEC_BUF_CLEAR_ERR) # 0

(***************************************************************************)
(* C3.  After a processor call that failed the processor is not called     *)
(* again, and XLoader_SecureCopy returns success only if every block, in   *)
(* the order 0 .. N-1, was transferred into a chunk buffer and passed the  *)
(* hash verification.                                                      *)
(***************************************************************************)
C3_AbortOnFirstFailure ==
    /\ \A i \in 1..Len(PrcLog) :
          PrcLog[i].Status # XST_SUCCESS => i = Len(PrcLog)
    /\ PrcFailed => pc \in {"SC_End", "SC_Done"}
    /\ (Done /\ sc.Status = XST_SUCCESS) =>
          LET N == NumChunks(PrtnLen)
          IN  /\ N >= 1
              /\ Len(PrcLog) = N
              /\ Len(VerifyEvents) = N
              /\ Len(CopyInEvents) = N
              /\ \A k \in 0..(N - 1) :
                    /\ PrcLog[k + 1].blk = k
                    /\ PrcLog[k + 1].Status = XST_SUCCESS
                    /\ VerifyEvents[k + 1].blk = k
                    /\ VerifyEvents[k + 1].st = XST_SUCCESS
                    /\ CopyInEvents[k + 1].st = XST_SUCCESS
                    /\ CopyInEvents[k + 1].src = BlockAddr(k)
                    /\ CopyInEvents[k + 1].len = BlockLen(k, PrtnLen)

\* A run whose third processor call failed after two that succeeded.
C3_Witness ==
    /\ pc = "SC_End"
    /\ Len(PrcLog) = 3
    /\ PrcLog[1].Status = XST_SUCCESS
    /\ PrcLog[2].Status = XST_SUCCESS
    /\ PrcLog[3].Status # XST_SUCCESS

(***************************************************************************)
(* C4.  With the checksum processor and Size > 0: every successful call    *)
(* consumes a positive length no larger than what remains, so the          *)
(* remaining length strictly decreases and never goes below zero; when     *)
(* all chunks succeeded the loop has ended with remaining length zero, the *)
(* processed lengths sum to Size, and Last was passed as true on the final *)
(* call and on no other.                                                   *)
(***************************************************************************)
RECURSIVE SumProcessed(_)
SumProcessed(log) ==
    IF log = <<>> THEN 0 ELSE Head(log).ProcessedLen + SumProcessed(Tail(log))

C4_RemainingLength ==
    /\ sc.Len >= 0
    /\ Len(PrcLog) <= NumChunks(PrtnLen)
    /\ PrcLog # <<>> => PrcLog[1].Rem = PrtnLen
    /\ \A i \in 1..Len(PrcLog) :
          /\ PrcLog[i].Last => i = Len(PrcLog)
          /\ PrcLog[i].Status = XST_SUCCESS =>
                /\ PrcLog[i].ProcessedLen > 0
                /\ PrcLog[i].ProcessedLen <= PrcLog[i].Rem
          /\ i < Len(PrcLog) =>
                /\ PrcLog[i + 1].Rem = PrcLog[i].Rem - PrcLog[i].ProcessedLen
                /\ PrcLog[i + 1].Rem < PrcLog[i].Rem
    /\ (pc \in {"SC_Loop", "SC_End", "SC_Done"} /\ PrcLog # <<>> /\ AllPrcOk) =>
          sc.Len = PrcLog[Len(PrcLog)].Rem - PrcLog[Len(PrcLog)].ProcessedLen
    /\ (Done /\ sc.Size > 0 /\ AllPrcOk) =>
          /\ sc.Len = 0
          /\ SumProcessed(PrcLog) = sc.Size
          /\ PrcLog[Len(PrcLog)].Last

\* A three-chunk partition copied with success.
C4_Witness ==
    /\ Done
    /\ sc.Status = XST_SUCCESS
    /\ Len(PrcLog) = 3
    /\ sc.Len = 0

RECURSIVE SumSecureData(_, _)
SumSecureData(log, k) ==
    IF k = 0 THEN 0 ELSE log[k].SecureDataLen + SumSecureData(log, k - 1)

\* The payload of a well-formed partition: its chunks with the trailing
\* hashes of the non-final chunks removed.
RECURSIVE StrippedFrom(_, _)
StrippedFrom(k, size) ==
    IF k >= NumChunks(size) THEN <<>>
    ELSE LET c == ChunkImage(k, size)
             n == IF k < NumChunks(size) - 1
                  THEN Len(c) - XLOADER_SHA3_LEN ELSE Len(c)
         IN  SubSeq(c, 1, n) \o StrippedFrom(k + 1, size)

C6_DestinationContents ==
    (Done /\ sc.Status = XST_SUCCESS /\ ~SecurePtr.IsCdo) =>
       LET N == NumChunks(PrtnLen)
           want == StrippedFrom(0, PrtnLen)
       IN  /\ Len(PrcLog) = N
           /\ \A k \in 0..(N - 1) :
                 LET e == PrcLog[k + 1]
                 IN  /\ e.SecureDataLen =
                           IF k < N - 1
                           THEN BlockLen(k, PrtnLen) - XLOADER_SHA3_LEN
                           ELSE BlockLen(k, PrtnLen)
                     /\ e.LoadAddr = sc.DestAddr + SumSecureData(PrcLog, k)
                     /\ RdMem(ddr, e.LoadAddr, e.SecureDataLen)
                           = RdFlash(BlockAddr(k), e.SecureDataLen)
           /\ Len(want) = SumSecureData(PrcLog, N)
           /\ \A a \in DdrAddrs :
                 ddr[a] = IF a >= sc.DestAddr /\ a < sc.DestAddr + Len(want)
                          THEN want[a - sc.DestAddr + 1] ELSE StaleByte

\* A raw three-chunk partition copied with success.
C6_Witness ==
    /\ Done
    /\ sc.Status = XST_SUCCESS
    /\ ~SecurePtr.IsCdo
    /\ NumChunks(PrtnLen) = 3
    /\ ddr[sc.DestAddr] = PayloadByte(0)

(***************************************************************************)
(* The hash chain under corruption of one byte of the partition data.      *)
(***************************************************************************)
Tampered == Tamper # NoTamper
TamperedChunk == ChunkOf(Tamper)
\* The corrupted byte is payload of a non-final chunk.
TamperedPayload ==
    /\ Tampered
    /\ TamperedChunk < NumChunks(PrtnLen) - 1
    /\ ~InEmbeddedHash(Tamper, PrtnLen)
\* The corrupted byte is in the trailing embedded hash of a non-final chunk.
TamperedHash == Tampered /\ InEmbeddedHash(Tamper, PrtnLen)

\* The context holds the partition's checksum as first expected hash.
ChecksumLoaded ==
    /\ pc \notin {"Start", "InitFailed"}
    /\ (PdiPtr.PdiType = "RESTORE" \/ ~PdiPtr.CopyToMem)

HashMismatch == XPlmi_UpdateStatus(XLOADER_ERR_PRTN_HASH_COMPARE_FAIL, XST_FAILURE)

\* Verification of the corrupted chunk fails (with the hash-mismatch error
\* unless the SHA3 engine itself failed), no later chunk is verified, and
\* XLoader_SecureCopy does not return success.
FailsAtTamperedChunk ==
    /\ \A i \in 1..Len(DevLog) :
          IsVerify(DevLog[i]) =>
             /\ DevLog[i].blk <= TamperedChunk
             /\ DevLog[i].blk = TamperedChunk =>
                   /\ DevLog[i].st # XST_SUCCESS
                   /\ DevLog[i].flag = "none" => DevLog[i].st = HashMismatch
    /\ \A i \in 1..Len(PrcLog) :
          /\ PrcLog[i].blk <= TamperedChunk
          /\ PrcLog[i].blk = TamperedChunk => PrcLog[i].Status # XST_SUCCESS
    /\ Done => sc.Status # XST_SUCCESS

(***************************************************************************)
(* C7.  If a payload byte of a non-final chunk k is changed, the           *)
(* verification of chunk k fails with the hash-mismatch error:             *)
(* XLoader_SecureCopy fails at chunk k and verifies no later chunk.        *)
(***************************************************************************)
C7_PayloadTamper == TamperedPayload => FailsAtTamperedChunk

\* Chunk 1 of a three-chunk partition has a corrupted payload byte, chunk 0
\* passed, and the verification of chunk 1 reported the mismatch.
C7_Witness ==
    /\ TamperedPayload
    /\ TamperedChunk = 1
    /\ \E i \in 1..Len(DevLog) :
          /\ IsVerify(DevLog[i])
          /\ DevLog[i].blk = 1
          /\ DevLog[i].st = HashMismatch
    /\ \E i \in 1..Len(DevLog) :
          IsVerify(DevLog[i]) /\ DevLog[i].blk = 0 /\ DevLog[i].st = XST_SUCCESS

(***************************************************************************)
(* C8 as stated: if only the trailing embedded hash of a non-final chunk k *)
(* is changed, the verification of chunk k passes and the verification of  *)
(* chunk k+1 fails.                                                        *)
(***************************************************************************)
C8_Original ==
    (TamperedHash /\ ChecksumLoaded) =>
       \A i \in 1..Len(DevLog) :
          (IsVerify(DevLog[i]) /\ DevLog[i].flag = "none") =>
             /\ DevLog[i].blk = TamperedChunk => DevLog[i].st = XST_SUCCESS
             /\ DevLog[i].blk = TamperedChunk + 1 => DevLog[i].st = HashMismatch

(***************************************************************************)
(* C8 (as amended).  If only the trailing embedded hash of a non-final     *)
(* chunk k is changed, the verification of chunk k itself fails with the   *)
(* hash-mismatch error (the digest of a non-final chunk covers its         *)
(* trailing embedded hash), and chunk k+1 is never verified.               *)
(***************************************************************************)
C8_EmbeddedHashTamper == TamperedHash => FailsAtTamperedChunk

\* The embedded hash of chunk 1 is corrupted, chunk 0 passed, and the
\* verification of chunk 1 reported the mismatch.
C8_Witness ==
    /\ TamperedHash
    /\ TamperedChunk = 1
    /\ \E i \in 1..Len(DevLog) :
          /\ IsVerify(DevLog[i])
          /\ DevLog[i].blk = 1
          /\ DevLog[i].flag = "none"
          /\ DevLog[i].st = HashMismatch

(***************************************************************************)
(* C9 as stated: in a partition of at least two chunks the transfer of     *)
(* block 1 is initiated before the verification of block 0 completes.      *)
(***************************************************************************)
InitiatedBefore(i, k) ==
    \E j \in 1..(i - 1) :
       /\ IsInitiate(DevLog[j])
       /\ DevLog[j].src = BlockAddr(k)
       /\ DevLog[j].st = XST_SUCCESS

C9_Original ==
    NumChunks(PrtnLen) >= 2 =>
       \A i \in 1..Len(DevLog) :
          (IsVerify(DevLog[i]) /\ DevLog[i].blk = 0) => InitiatedBefore(i, 1)

(***************************************************************************)
(* C9 (as amended).  For every block k >= 1 that is not the last one, the  *)
(* transfer of block k+1 is initiated before the verification of block k   *)
(* completes.  Nothing is initiated while block 0 is processed: block 1 is *)
(* fetched by a blocking copy issued after the verification of block 0.    *)
(***************************************************************************)
C9_PrefetchOverlap ==
    LET N == NumChunks(PrtnLen)
    IN  \A i \in 1..Len(DevLog) :
           /\ (IsVerify(DevLog[i]) /\ DevLog[i].blk >= 1
                  /\ DevLog[i].blk < N - 1) =>
                 InitiatedBefore(i, DevLog[i].blk + 1)
           /\ (IsVerify(DevLog[i]) /\ DevLog[i].blk = 0) =>
                 \A j \in 1..(i - 1) : ~IsInitiate(DevLog[j])
           /\ (IsCopyIn(DevLog[i]) /\ DevLog[i].blk = 1) =>
                 /\ DevLog[i].flag = XPLMI_DEVICE_COPY_STATE_BLK
                 /\ DevLog[i].src = BlockAddr(1)
                 /\ \E j \in 1..(i - 1) :
                       /\ IsVerify(DevLog[j])
                       /\ DevLog[j].blk = 0
                       /\ DevLog[j].st = XST_SUCCESS

\* Block 1 of a three-chunk partition was verified after the transfer of
\* block 2 had been initiated.
C9_Witness ==
    /\ NumChunks(PrtnLen) = 3
    /\ \E i \in 1..Len(DevLog) :
          /\ IsVerify(DevLog[i])
          /\ DevLog[i].blk = 1
          /\ InitiatedBefore(i, 2)

(***************************************************************************)
(* C10.  XLoader_SecureChunkCopy issues a wait-only call exactly when      *)
(* IsNextChunkCopyStarted is set, and clears the flag; it issues a         *)
(* blocking copy when the flag is clear; and a wait-only call is issued    *)
(* only while a transfer that an earlier initiate-only call started is     *)
(* still to be waited for.                                                 *)
(***************************************************************************)
\* An initiate-only call succeeded and no wait-only call followed it.
InitiatedNotWaited(log) ==
    \E j \in 1..Len(log) :
       /\ IsInitiate(log[j])
       /\ log[j].st = XST_SUCCESS
       /\ \A m \in (j + 1)..Len(log) : ~IsWait(log[m])

C10_ChunkCopyStep ==
    pc = "ChunkCopy" =>
       LET e == DevLog'[Len(DevLog')]
       IN  /\ Len(DevLog') = Len(DevLog) + 1
           /\ e.ev = "copy"
           /\ SecurePtr.IsNextChunkCopyStarted =>
                 /\ e.flag = XPLMI_DEVICE_COPY_STATE_WAIT_DONE
                 /\ ~SecurePtr'.IsNextChunkCopyStarted
           /\ ~SecurePtr.IsNextChunkCopyStarted =>
                 e.flag = XPLMI_DEVICE_COPY_STATE_BLK
           /\ e.flag = XPLMI_DEVICE_COPY_STATE_WAIT_DONE =>
                 /\ dma.active
                 /\ InitiatedNotWaited(DevLog)

C10_WaitOnlyAfterInitiate == [][C10_ChunkCopyStep]_vars

\* A wait-only call has been issued.
C10_Witness ==
    /\ DevLog # <<>>
    /\ IsWait(DevLog[Len(DevLog)])
    /\ ~SecurePtr.IsNextChunkCopyStarted

(***************************************************************************)
(* C11.  Ping-pong buffering: at most one transfer is in flight (initiated *)
(* and not yet waited on), and while a chunk is being placed and verified  *)
(* the transfer in flight fills the other scratch buffer.                  *)
(***************************************************************************)
\* The initiate-only calls that succeeded and have not been waited on.
InFlight(log) ==
    { j \in 1..Len(log) :
         /\ IsInitiate(log[j])
         /\ log[j].st = XST_SUCCESS
         /\ \A m \in (j + 1)..Len(log) : ~IsWait(log[m]) }

\* The chunk in SecurePtr.ChunkAddr is being copied out and verified.
ChunkActive == pc \in {"DmaXfr", "Verify", "SC_Advance"}

Disjoint(a, alen, b, blen) == (a + alen <= b) \/ (b + blen <= a)

LoaderIdle ==
    /\ pc = "Idle"
    /\ SecurePtr = ZeroSecurePtr
    /\ PdiPtr = [ PdiType |-> "FULL", CopyToMem |-> FALSE, CopyToMemAddr |-> 0,
                  FlashOfstAddr |-> 0 ]
    /\ PrtnLen = 0
    /\ Tamper = NoTamper
    /\ PrtnHdr = [ ChecksumType |-> 0, ChecksumWordOfst |-> 0,
                   DataWordOfst |-> HashWords ]
    /\ InitStatus = XST_FAILURE
    /\ InitCalls = <<>>
    /\ sc = ZeroSc
    /\ pcp = ZeroPcp
    /\ flash = FlashImage(0, NoTamper)
    /\ pmcram = [a \in PmcRamAddrs |-> StaleByte]
    /\ ddr = [a \in DdrAddrs |-> StaleByte]
    /\ dma = NoXfer
    /\ DevLog = <<>>
    /\ PrcLog = <<>>
    /\ ClrCalls = <<>>

InitRoT ==
    /\ LoaderIdle
    /\ RepairIdle
    /\ rpc = "SS_Ppk"
    /\ hw \in [ Ppk : [PpkAddrs -> {0, 1}], BhAuth : 0..3, DecOnly : {0, 1},
                PlmKeySrc : {0, 1}, SecureExclude : BOOLEAN ]
    /\ ppk = NoPpk
    /\ ss = ZeroSs
    /\ rot = InitRot
    /\ RegLog = <<>>
    /\ clr = ZeroClr

(***************************************************************************)
(* XLoader_CheckNonZeroPpk.  Index is volatile: the loop ends with the     *)
(* index the scan reaches, or, under a fault, with any other value.        *)
(***************************************************************************)
RECURSIVE PpkScanFrom(_, _)
\* The for loop: the index at which it ends without a fault.
PpkScanFrom(fuses, Index) ==
    IF Index > XLOADER_EFUSE_PPK2_END_OFFSET THEN Index
    ELSE IF fuses[Index] # 0 THEN Index
    ELSE PpkScanFrom(fuses, Index + XIH_PRTN_WORD_LEN)

PpkScanEnd(fuses) == PpkScanFrom(fuses, XLOADER_EFUSE_PPK0_START_OFFSET)

\* Mutant: an index past the end of the range counts as not programmed.
PpkStatus_NoUpperCheck(Index) ==
    IF Index < XLOADER_EFUSE_PPK0_START_OFFSET
    THEN XLOADER_ERR_GLITCH_DETECTED
    ELSE IF Index <= XLOADER_EFUSE_PPK2_END_OFFSET THEN XST_SUCCESS
    ELSE XST_FAILURE

\* The checks on the index after the loop.
PpkStatus(Index) ==
    IF Index > XLOADER_EFUSE_PPK2_END_OFFSET + XIH_PRTN_WORD_LEN
    THEN XLOADER_ERR_GLITCH_DETECTED
    ELSE IF Index < XLOADER_EFUSE_PPK0_START_OFFSET
    THEN XLOADER_ERR_GLITCH_DETECTED
    ELSE IF Index <= XLOADER_EFUSE_PPK2_END_OFFSET THEN XST_SUCCESS
    ELSE XST_FAILURE

ScanIndexes == 0..MaxIndex

\* The two calls XSECURE_TEMPORAL_IMPL makes, one per step.
CheckNonZeroPpk ==
    /\ rpc \in {"SS_Ppk", "SS_PpkTmp"}
    /\ \E Index \in {PpkScanEnd(hw.Ppk)} \cup ScanIndexes :
          LET Status == PpkStatus(Index)
          IN  /\ ppk' = [ Calls |-> ppk.Calls + 1, Index |-> Index,
                          Status |-> Status,
                          Glitched |-> ppk.Glitched
                                          \/ Index # PpkScanEnd(hw.Ppk),
                          GlitchErrs |-> ppk.GlitchErrs +
                             IF Status = XLOADER_ERR_GLITCH_DETECTED
                             THEN 1 ELSE 0 ]
              /\ ss' = IF rpc = "SS_Ppk"
                       THEN [ss EXCEPT !.Status = Status]
                       ELSE [ss EXCEPT !.StatusTmp = Status]
    /\ rpc' = IF rpc = "SS_Ppk" THEN "SS_PpkTmp" ELSE "SS_Auth"
    /\ UNCHANGED <<hw, rot, RegLog, clr>>
    /\ UNCHANGED <<loaderVars, repairVars>>

(***************************************************************************)
(* Xil_SecureOut32: writes the register and reads it back.                 *)
(***************************************************************************)
\* What the register can hold after the write.
ReadBacks(val) == {val, 0}
SecureOut32Status(val, rb) == IF rb = val THEN XST_SUCCESS ELSE XST_FAILURE
OutEvent(addr, val, st) == [ addr |-> addr, val |-> val, st |-> st ]

(***************************************************************************)
(* XLoader_SetSecureState: secure state for authentication.                *)
(***************************************************************************)
PpkProgrammed(Status, StatusTmp) ==
    (Status = XST_SUCCESS) \/ (StatusTmp = XST_SUCCESS)
BhdrAuthSet(IsBhdrAuth, IsBhdrAuthTmp) ==
    \/ IsBhdrAuth = XIH_BH_IMG_ATTRB_BH_AUTH_VALUE
    \/ IsBhdrAuthTmp = XIH_BH_IMG_ATTRB_BH_AUTH_VALUE

\* Mutant: boot header authentication is not looked at.
AuthState_NoEmulated(Programmed, BhAuth) ==
    IF Programmed THEN XPLMI_RTCFG_SECURESTATE_AHWROT
    ELSE XPLMI_RTCFG_SECURESTATE_NONSECURE

AuthState(Programmed, BhAuth) ==
    IF Programmed THEN XPLMI_RTCFG_SECURESTATE_AHWROT
    ELSE IF BhAuth THEN XPLMI_RTCFG_SECURESTATE_EMUL_AHWROT
    ELSE XPLMI_RTCFG_SECURESTATE_NONSECURE

BhAuthNotAllowed(Programmed, BhAuth) == Programmed /\ BhAuth

\* Mutant: the static mirror keeps its initialiser.
MirrorOf_Stale(State, Old) == Old
\* XLoader_GetAHWRoT / XLoader_GetSHWRoT called with a non-NULL pointer.
MirrorOf(State, Old) == State

\* A pointer argument: <<>> is NULL, <<v>> points at the value v.
NullPtr == <<>>
\* The value the call returns, which is the value the static then holds.
XLoader_GetAHWRoT(AHWRoTPtr, SecureStateAHWRoT) ==
    IF AHWRoTPtr # NullPtr
    THEN MirrorOf(AHWRoTPtr[1], SecureStateAHWRoT)
    ELSE SecureStateAHWRoT
XLoader_GetSHWRoT(SHWRoTPtr, SecureStateSHWRoT) ==
    IF SHWRoTPtr # NullPtr
    THEN MirrorOf(SHWRoTPtr[1], SecureStateSHWRoT)
    ELSE SecureStateSHWRoT

SS_AuthState ==
    /\ rpc = "SS_Auth"
    /\ LET Programmed == PpkProgrammed(ss.Status, ss.StatusTmp)
           BhAuth == BhdrAuthSet(hw.BhAuth, hw.BhAuth)
           AHWRoT == AuthState(Programmed, BhAuth)
       IN  IF BhAuthNotAllowed(Programmed, BhAuth)
           THEN /\ ss' = [ss EXCEPT !.Status = XPlmi_UpdateStatus(
                              XLOADER_ERR_HWROT_BH_AUTH_NOT_ALLOWED, 0)]
                /\ rpc' = "SS_Done"
                /\ UNCHANGED <<rot, RegLog>>
           ELSE \E rb \in ReadBacks(AHWRoT) :
                   LET Status == SecureOut32Status(AHWRoT, rb)
                   IN  /\ rot' = [rot EXCEPT
                             !.SecureStateAHWRoT =
                                   XLoader_GetAHWRoT(<<AHWRoT>>,
                                      rot.SecureStateAHWRoT),
                             !.Reg[XPLMI_RTCFG_SECURESTATE_AHWROT_ADDR] = rb]
                       /\ RegLog' = Append(RegLog,
                             OutEvent(XPLMI_RTCFG_SECURESTATE_AHWROT_ADDR,
                                      AHWRoT, Status))
                       /\ ss' = [ss EXCEPT !.AHWRoT = AHWRoT,
                                           !.Status = Status]
                       /\ rpc' = IF Status # XST_SUCCESS
                                 THEN "SS_Done" ELSE "SS_Enc"
    /\ UNCHANGED <<hw, ppk, clr>>
    /\ UNCHANGED <<loaderVars, repairVars>>

(***************************************************************************)
(* XLoader_SetSecureState: secure state for encryption.                    *)
(***************************************************************************)
\* Mutant: an encrypted PLM is looked at first.
EncState_KeySrcFirst(ReadReg, ReadRegTmp, PlmEncStatus, PlmEncStatusTmp) ==
    IF (PlmEncStatus # 0) \/ (PlmEncStatusTmp # 0)
    THEN XPLMI_RTCFG_SECURESTATE_EMUL_SHWROT
    ELSE IF (ReadReg # 0) \/ (ReadRegTmp # 0)
    THEN XPLMI_RTCFG_SECURESTATE_SHWROT
    ELSE XPLMI_RTCFG_SECURESTATE_NONSECURE

EncState(ReadReg, ReadRegTmp, PlmEncStatus, PlmEncStatusTmp) ==
    IF (ReadReg # 0) \/ (ReadRegTmp # 0)
    THEN XPLMI_RTCFG_SECURESTATE_SHWROT
    ELSE IF (PlmEncStatus # 0) \/ (PlmEncStatusTmp # 0)
    THEN XPLMI_RTCFG_SECURESTATE_EMUL_SHWROT
    ELSE XPLMI_RTCFG_SECURESTATE_NONSECURE

SS_EncState ==
    /\ rpc = "SS_Enc"
    /\ LET SHWRoT == EncState(hw.DecOnly, hw.DecOnly,
                              hw.PlmKeySrc, hw.PlmKeySrc)
       IN  \E rb \in ReadBacks(SHWRoT) :
              LET Status == SecureOut32Status(SHWRoT, rb)
              IN  /\ rot' = [rot EXCEPT
                        !.SecureStateSHWRoT =
                              XLoader_GetSHWRoT(<<SHWRoT>>,
                                 rot.SecureStateSHWRoT),
                        !.Reg[XPLMI_RTCFG_SECURESTATE_SHWROT_ADDR] = rb]
                  /\ RegLog' = Append(RegLog,
                        OutEvent(XPLMI_RTCFG_SECURESTATE_SHWROT_ADDR,
                                 SHWRoT, Status))
                  /\ ss' = [ss EXCEPT !.SHWRoT = SHWRoT, !.Status = Status]
    /\ rpc' = "SS_Done"
    /\ UNCHANGED <<hw, ppk, clr>>
    /\ UNCHANGED <<loaderVars, repairVars>>

(***************************************************************************)
(* XLoader_SecureClear.                                                    *)
(***************************************************************************)
\* Return values of XLoader_AuthEncClear; without the secure code
\* (PLM_SECURE_EXCLUDE) there is no teardown and Status is XST_SUCCESS.
TeardownStatuses(SecureExclude) ==
    IF SecureExclude THEN {XST_SUCCESS} ELSE {XST_SUCCESS, XST_FAILURE}

\* Mutant: only the teardown decides.
ClearStatus_TeardownOnly(Status, SStatus) ==
    IF Status # XST_SUCCESS
    THEN XPlmi_UpdateStatus(XLOADER_ERR_SECURE_CLEAR_FAIL,
                            BitOr(Status, SStatus))
    ELSE Status

ClearStatus(Status, SStatus) ==
    IF (Status # XST_SUCCESS) \/ (SStatus # XST_SUCCESS)
    THEN XPlmi_UpdateStatus(XLOADER_ERR_SECURE_CLEAR_FAIL,
                            BitOr(Status, SStatus))
    ELSE Status

SecureClear ==
    /\ rpc = "SS_Done"
    /\ \E Teardown \in TeardownStatuses(hw.SecureExclude),
          rb \in ReadBacks(XLOADER_SHA3_RESET_VAL) :
          LET SStatus == SecureOut32Status(XLOADER_SHA3_RESET_VAL, rb)
          IN  /\ rot' = [rot EXCEPT !.Reg[XLOADER_SHA3_RESET_REG] = rb]
              /\ RegLog' = Append(RegLog,
                    OutEvent(XLOADER_SHA3_RESET_REG, XLOADER_SHA3_RESET_VAL,
                             SStatus))
              /\ clr' = [ Status |-> ClearStatus(Teardown, SStatus),
                          SStatus |-> SStatus, Teardown |-> Teardown ]
    /\ rpc' = "Clr_Done"
    /\ UNCHANGED <<hw, ppk, ss>>
    /\ UNCHANGED <<loaderVars, repairVars>>

NextRoT ==
    \/ CheckNonZeroPpk
    \/ SS_AuthState
    \/ SS_EncState
    \/ SecureClear

SpecRoT == InitRoT /\ [][NextRoT]_vars

(***************************************************************************)
(* C12 as stated: for every terminating index outside the inclusive range  *)
(* [PPK0 start, PPK2 end] XLoader_CheckNonZeroPpk returns the              *)
(* glitch-detected error, and it returns success only for an index inside  *)
(* the range.                                                              *)
(***************************************************************************)
PpkReturned == ppk.Calls > 0
InPpkRange(Index) ==
    /\ Index >= XLOADER_EFUSE_PPK0_START_OFFSET
    /\ Index <= XLOADER_EFUSE_PPK2_END_OFFSET
AnyPpkFuse == \E a \in PpkAddrs : hw.Ppk[a] # 0

C12_Original ==
    PpkReturned =>
       /\ ~InPpkRange(ppk.Index) => ppk.Status = XLOADER_ERR_GLITCH_DETECTED
       /\ ppk.Status = XST_SUCCESS => InPpkRange(ppk.Index)

(***************************************************************************)
(* C12 (as amended).  XLoader_CheckNonZeroPpk returns the glitch-detected  *)
(* error for every terminating index below PPK0 start or more than one     *)
(* word past PPK2 end; for an index past PPK2 end by at most one word,     *)
(* which is where the scan of unprogrammed fuses ends, it returns          *)
(* XST_FAILURE; it returns success exactly for an index inside the range.  *)
(***************************************************************************)
C12_GlitchDetector ==
    PpkReturned =>
       /\ (\/ ppk.Index < XLOADER_EFUSE_PPK0_START_OFFSET
           \/ ppk.Index > XLOADER_EFUSE_PPK2_END_OFFSET + XIH_PRTN_WORD_LEN)
             => ppk.Status = XLOADER_ERR_GLITCH_DETECTED
       /\ (/\ ppk.Index > XLOADER_EFUSE_PPK2_END_OFFSET
           /\ ppk.Index <= XLOADER_EFUSE_PPK2_END_OFFSET + XIH_PRTN_WORD_LEN)
             => ppk.Status = XST_FAILURE
       /\ ppk.Status = XST_SUCCESS <=> InPpkRange(ppk.Index)
       /\ ppk.Index = PpkScanEnd(hw.Ppk) =>
             ppk.Status = IF AnyPpkFuse THEN XST_SUCCESS ELSE XST_FAILURE

\* A faulted scan ended far past the range and the glitch was reported.
C12_Witness ==
    /\ PpkReturned
    /\ ppk.Index > XLOADER_EFUSE_PPK2_END_OFFSET + XIH_PRTN_WORD_LEN
    /\ ppk.Status = XLOADER_ERR_GLITCH_DETECTED

(***************************************************************************)
(* C13.  Secure state for authentication, for every combination of (a PPK  *)
(* fuse programmed, boot header authentication set), when no fault hits    *)
(* the fuse scan: (yes, yes) returns the BH-auth-not-allowed error,        *)
(* (yes, no) gives Asymmetric HWRoT, (no, yes) Emulated Asymmetric HWRoT,  *)
(* (no, no) Non Secure.                                                    *)
(***************************************************************************)
AuthDecided == rpc \in {"SS_Enc", "SS_Done", "Clr_Done"}
BhAuthField == hw.BhAuth = XIH_BH_IMG_ATTRB_BH_AUTH_VALUE
BhAuthNotAllowedErr ==
    XPlmi_UpdateStatus(XLOADER_ERR_HWROT_BH_AUTH_NOT_ALLOWED, 0)
\* The state written for authentication, to the mirror and to the register.
AuthWritten(State) ==
    /\ ss.AHWRoT = State
    /\ rot.SecureStateAHWRoT = State
    /\ Len(RegLog) >= 1
    /\ RegLog[1].addr = XPLMI_RTCFG_SECURESTATE_AHWROT_ADDR
    /\ RegLog[1].val = State
    /\ ss.Status # BhAuthNotAllowedErr

C13_AuthPosture ==
    (AuthDecided /\ ~ppk.Glitched) =>
       /\ (AnyPpkFuse /\ BhAuthField) =>
             /\ ss.Status = BhAuthNotAllowedErr
             /\ rpc # "SS_Enc"
             /\ \A i \in 1..Len(RegLog) :
                   RegLog[i].addr = XLOADER_SHA3_RESET_REG
       /\ (AnyPpkFuse /\ ~BhAuthField) =>
             AuthWritten(XPLMI_RTCFG_SECURESTATE_AHWROT)
       /\ (~AnyPpkFuse /\ BhAuthField) =>
             AuthWritten(XPLMI_RTCFG_SECURESTATE_EMUL_AHWROT)
       /\ (~AnyPpkFuse /\ ~BhAuthField) =>
             AuthWritten(XPLMI_RTCFG_SECURESTATE_NONSECURE)

\* No PPK fuse is programmed, the boot header asks for authentication, and
\* the state for authentication was set to Emulated Asymmetric HWRoT.
C13_Witness ==
    /\ AuthDecided
    /\ ~ppk.Glitched
    /\ ~AnyPpkFuse
    /\ BhAuthField
    /\ AuthWritten(XPLMI_RTCFG_SECURESTATE_EMUL_AHWROT)

(***************************************************************************)
(* C14.  Secure state for encryption: whenever it is evaluated it is       *)
(* Symmetric HWRoT if a DEC_ONLY fuse bit is programmed, else Emulated     *)
(* Symmetric HWRoT if the PLM has an encryption key source, else Non       *)
(* Secure; it is a function of these two inputs alone, whatever the PPK    *)
(* fuses, the boot header authentication field and the fuse scan did.      *)
(***************************************************************************)
EncEvaluated ==
    \E i \in 1..Len(RegLog) :
       RegLog[i].addr = XPLMI_RTCFG_SECURESTATE_SHWROT_ADDR
ExpectedEncState ==
    IF hw.DecOnly # 0 THEN XPLMI_RTCFG_SECURESTATE_SHWROT
    ELSE IF hw.PlmKeySrc # 0 THEN XPLMI_RTCFG_SECURESTATE_EMUL_SHWROT
    ELSE XPLMI_RTCFG_SECURESTATE_NONSECURE

C14_EncPosture ==
    /\ EncEvaluated =>
          /\ ss.SHWRoT = ExpectedEncState
          /\ \A i \in 1..Len(RegLog) :
                RegLog[i].addr = XPLMI_RTCFG_SECURESTATE_SHWROT_ADDR =>
                   RegLog[i].val = ExpectedEncState

\* With PPK fuses programmed and no DEC_ONLY fuse, an encrypted PLM gave
\* Emulated Symmetric HWRoT.
C14_Witness ==
    /\ EncEvaluated
    /\ AnyPpkFuse
    /\ hw.DecOnly = 0
    /\ hw.PlmKeySrc # 0
    /\ ss.SHWRoT = XPLMI_RTCFG_SECURESTATE_EMUL_SHWROT

(***************************************************************************)
(* C15.  When XLoader_SetSecureState returns success, both states have     *)
(* been written to their registers and to the static mirrors, and each     *)
(* mirror equals its register; when a register write fails the function    *)
(* returns a failure.                                                      *)
(***************************************************************************)
SSReturned == rpc \in {"SS_Done", "Clr_Done"}
StateRegs == {XPLMI_RTCFG_SECURESTATE_AHWROT_ADDR,
              XPLMI_RTCFG_SECURESTATE_SHWROT_ADDR}
\* A successful Xil_SecureOut32 of val to addr was made.
Stored(addr, val) ==
    \E i \in 1..Len(RegLog) :
       /\ RegLog[i].addr = addr
       /\ RegLog[i].val = val
       /\ RegLog[i].st = XST_SUCCESS

C15_Persisted ==
    SSReturned =>
       /\ ss.Status = XST_SUCCESS =>
             /\ Stored(XPLMI_RTCFG_SECURESTATE_AHWROT_ADDR, ss.AHWRoT)
             /\ Stored(XPLMI_RTCFG_SECURESTATE_SHWROT_ADDR, ss.SHWRoT)
             /\ rot.Reg[XPLMI_RTCFG_SECURESTATE_AHWROT_ADDR]
                   = rot.SecureStateAHWRoT
             /\ rot.Reg[XPLMI_RTCFG_SECURESTATE_SHWROT_ADDR]
                   = rot.SecureStateSHWRoT
             /\ rot.SecureStateAHWRoT = ss.AHWRoT
             /\ rot.SecureStateSHWRoT = ss.SHWRoT
       /\ (\E i \in 1..Len(RegLog) :
              /\ RegLog[i].addr \in StateRegs
              /\ RegLog[i].st # XST_SUCCESS)
             => ss.Status # XST_SUCCESS

\* XLoader_SetSecureState returned success with Emulated Asymmetric HWRoT
\* and Emulated Symmetric HWRoT.
C15_Witness ==
    /\ SSReturned
    /\ ss.Status = XST_SUCCESS
    /\ rot.SecureStateAHWRoT = XPLMI_RTCFG_SECURESTATE_EMUL_AHWROT
    /\ rot.SecureStateSHWRoT = XPLMI_RTCFG_SECURESTATE_EMUL_SHWROT
    /\ rot.Reg[XPLMI_RTCFG_SECURESTATE_SHWROT_ADDR]
          = XPLMI_RTCFG_SECURESTATE_EMUL_SHWROT

(***************************************************************************)
(* C16.  XLoader_SecureClear always writes the reset value to the SHA3     *)
(* reset register, also when the teardown failed, and returns success if   *)
(* and only if both the teardown and the register write succeeded.         *)
(***************************************************************************)
ClearReturned == rpc = "Clr_Done"
ResetWrites ==
    { i \in 1..Len(RegLog) :
         /\ RegLog[i].addr = XLOADER_SHA3_RESET_REG
         /\ RegLog[i].val = XLOADER_SHA3_RESET_VAL }

C16_SecureClear ==
    ClearReturned =>
       /\ Cardinality(ResetWrites) = 1
       /\ \A i \in ResetWrites : RegLog[i].st = clr.SStatus
       /\ clr.SStatus = XST_SUCCESS =>
             rot.Reg[XLOADER_SHA3_RESET_REG] = XLOADER_SHA3_RESET_VAL
       /\ clr.Status = XST_SUCCESS <=>
             (clr.Teardown = XST_SUCCESS /\ clr.SStatus = XST_SUCCESS)

\* The teardown failed, the SHA3 engine was put in reset all the same, and
\* XLoader_SecureClear reported the failure.
C16_Witness ==
    /\ ClearReturned
    /\ clr.Teardown # XST_SUCCESS
    /\ clr.SStatus = XST_SUCCESS
    /\ rot.Reg[XLOADER_SHA3_RESET_REG] = XLOADER_SHA3_RESET_VAL
    /\ clr.Status # XST_SUCCESS

(***************************************************************************)
(* C17.  XLoader_SecureInit fails with an init error when the partition    *)
(* header declares a checksum type other than SHA3; checksum mode is then  *)
(* not enabled and the checksum processor is not bound.                    *)
(***************************************************************************)
InitReturned == pc \notin {"Start", "Idle"}
UnsupportedChecksum ==
    PrtnHdr.ChecksumType \notin {0, XIH_PH_ATTRB_HASH_SHA3}
InvalidChecksumTypeErr ==
    XPlmi_UpdateStatus(XLOADER_ERR_INIT_INVALID_CHECKSUM_TYPE, 0)
\* The errors of the steps that come before the checksum type is looked at.
EarlierInitErrs ==
    { XPlmi_UpdateStatus(XLOADER_ERR_MEMSET, XLOADER_ERR_MEMSET_SECURE_PTR),
      XPlmi_UpdateStatus(XLOADER_ERR_INIT_GET_DMA, 0) }

C17_UnsupportedChecksum ==
    (InitReturned /\ UnsupportedChecksum) =>
       /\ pc = "InitFailed"
       /\ InitStatus # XST_SUCCESS
       /\ InitStatus \in EarlierInitErrs \cup {InvalidChecksumTypeErr}
       /\ ~SecurePtr.IsCheckSumEnabled
       /\ SecurePtr.ProcessPrtn # ChecksumPrtnFn
       /\ DevLog = <<>>

\* The checksum type was looked at and rejected.
C17_Witness ==
    /\ pc = "InitFailed"
    /\ UnsupportedChecksum
    /\ InitStatus = InvalidChecksumTypeErr
    /\ ~SecurePtr.IsCheckSumEnabled
    /\ SecurePtr.ProcessPrtn = NullFn

(***************************************************************************)
(* C18 as stated: after every successful XLoader_SecureInit a partition    *)
(* processor is bound to the context, never none.                          *)
(***************************************************************************)
InitSucceeded == InitReturned /\ InitStatus = XST_SUCCESS

C18_Original == InitSucceeded => SecurePtr.ProcessPrtn # NullFn

(***************************************************************************)
(* C18 (as amended).  After a successful XLoader_SecureInit at most one    *)
(* processor is bound: the checksum processor only if the partition        *)
(* declares the SHA3 checksum, and none if it declares no checksum and     *)
(* neither XLoader_SecureAuthInit nor XLoader_SecureEncInit binds one (as  *)
(* in every build with PLM_SECURE_EXCLUDE).  The binding is not changed    *)
(* by XLoader_SecureCopy, the chunk copy, the checksum processor or the    *)
(* verifier.                                                               *)
(***************************************************************************)
BindingAfterInit ==
    InitSucceeded =>
       /\ SecurePtr.ProcessPrtn \in {NullFn, ChecksumPrtnFn, AuthEncPrtnFn}
       /\ SecurePtr.ProcessPrtn = ChecksumPrtnFn =>
             /\ SecurePtr.IsCheckSumEnabled
             /\ PrtnHdr.ChecksumType = XIH_PH_ATTRB_HASH_SHA3
       /\ SecurePtr.IsCheckSumEnabled =>
             SecurePtr.ProcessPrtn \in {ChecksumPrtnFn, AuthEncPrtnFn}
       /\ pc # "Ready" => SecurePtr.ProcessPrtn = ChecksumPrtnFn

BindingKept ==
    pc # "Start" => SecurePtr'.ProcessPrtn = SecurePtr.ProcessPrtn

C18_ProcessorBinding == [] BindingAfterInit /\ [][BindingKept]_vars

\* A partition was loaded to the end with the checksum processor bound.
C18_Witness ==
    /\ pc = "SC_Done"
    /\ sc.Status = XST_SUCCESS
    /\ NumChunks(PrtnLen) >= 2
    /\ SecurePtr.ProcessPrtn = ChecksumPrtnFn

(***************************************************************************)
(* The verifier has just returned: the context and the locals of the       *)
(* processor still describe the chunk it looked at.                        *)
(***************************************************************************)
LastEvent == DevLog[Len(DevLog)]
VerifyAtHand ==
    /\ DevLog # <<>>
    /\ IsVerify(LastEvent)
    /\ \/ pc = "SC_Advance"
       \/ pc \in {"SC_End", "SC_Done"} /\ pcp.Status # XST_SUCCESS
DigestFinished == pcp.Hashed # <<>>

(***************************************************************************)
(* C19 as stated: for a non-final chunk of a CDO the digest covers exactly *)
(* Size bytes of payload; for a non-final chunk of a raw image it covers   *)
(* Size bytes of payload plus XLOADER_SHA3_LEN bytes right after the       *)
(* payload in the chunk buffer; for a final chunk it covers Size bytes.    *)
(***************************************************************************)
RawNonFinalCoverage ==
    << HashRange("ddr", pcp.DataAddr, SecurePtr.SecureDataLen),
       HashRange("pmcram", SecurePtr.ChunkAddr + SecurePtr.SecureDataLen,
                 XLOADER_SHA3_LEN) >>
FinalCoverage ==
    << HashRange(DataMem(SecurePtr), pcp.DataAddr, SecurePtr.SecureDataLen) >>

C19_Original ==
    (VerifyAtHand /\ DigestFinished) =>
       pcp.Hashed =
          IF pcp.Last THEN FinalCoverage
          ELSE IF SecurePtr.IsCdo
          THEN << HashRange("pmcram", SecurePtr.ChunkAddr,
                            SecurePtr.SecureDataLen) >>
          ELSE RawNonFinalCoverage

(***************************************************************************)
(* C19 (as amended).  For a non-final chunk of a CDO the digest covers     *)
(* Size + XLOADER_SHA3_LEN bytes of the chunk buffer, the payload and the  *)
(* hash that follows it; for a non-final chunk of a raw image it covers    *)
(* Size bytes at the load address plus the XLOADER_SHA3_LEN bytes right    *)
(* after the payload in the chunk buffer; for a final chunk it covers      *)
(* Size bytes.                                                             *)
(***************************************************************************)
C19_DigestCoverage ==
    (VerifyAtHand /\ DigestFinished) =>
       pcp.Hashed =
          IF pcp.Last THEN FinalCoverage
          ELSE IF SecurePtr.IsCdo
          THEN << HashRange("pmcram", SecurePtr.ChunkAddr,
                            SecurePtr.SecureDataLen + XLOADER_SHA3_LEN) >>
          ELSE RawNonFinalCoverage

\* A non-final chunk of a CDO passed with a digest over payload and hash.
C19_Witness ==
    /\ VerifyAtHand
    /\ SecurePtr.IsCdo
    /\ ~pcp.Last
    /\ pcp.Status = XST_SUCCESS
    /\ pcp.Hashed = << HashRange("pmcram", SecurePtr.ChunkAddr,
                                 pcp.BlockSize) >>

(***************************************************************************)
(* C20.  The verifier lets a chunk pass only if both outcomes of the       *)
(* doubled comparison report equal; if either reports unequal it returns   *)
(* the hash-mismatch error.                                                *)
(***************************************************************************)
Compared == pcp.Cmp # <<>>
BothEqual == pcp.Cmp = <<XST_SUCCESS, XST_SUCCESS>>

C20_DoubledComparison ==
    VerifyAtHand =>
       /\ LastEvent.st = XST_SUCCESS => (Compared /\ BothEqual)
       /\ (Compared /\ ~BothEqual) =>
             /\ LastEvent.st # XST_SUCCESS
             /\ LastEvent.st = XPlmi_UpdateStatus(
                                  XLOADER_ERR_PRTN_HASH_COMPARE_FAIL,
                                  pcp.Cmp[1])
       /\ pcp.Status = LastEvent.st

\* A fault made the first comparison report equal; the second reported
\* unequal and the chunk was rejected.
C20_Witness ==
    /\ VerifyAtHand
    /\ Compared
    /\ pcp.Cmp[1] = XST_SUCCESS
    /\ pcp.Cmp[2] # XST_SUCCESS
    /\ LastEvent.st = XPlmi_UpdateStatus(XLOADER_ERR_PRTN_HASH_COMPARE_FAIL,
                                         XST_SUCCESS)


(***************************************************************************)
(* C21.  The expected hash is overwritten only by a verification that      *)
(* matched on a non-final chunk, and then holds the XLOADER_SHA3_LEN bytes *)
(* that follow the payload in the chunk buffer in use; a mismatch, an      *)
(* error of the SHA3 engine and the final chunk leave it as it was, and so *)
(* does every other step after XLoader_SecureInit.                         *)
(***************************************************************************)
TrailingHash ==
    RdMem(pmcram, SecurePtr.ChunkAddr + SecurePtr.SecureDataLen,
          XLOADER_SHA3_LEN)

C21_VerifyStep ==
    /\ pc = "Verify" =>
          LET e == DevLog'[Len(DevLog')]
          IN  /\ IsVerify(e)
              /\ SecurePtr'.Sha3Hash =
                    IF e.st = XST_SUCCESS /\ ~pcp.Last
                    THEN TrailingHash ELSE SecurePtr.Sha3Hash
    /\ pc \notin {"Start", "Verify"} =>
          SecurePtr'.Sha3Hash = SecurePtr.Sha3Hash

C21_ExpectedHashUpdate == [][C21_VerifyStep]_vars

\* Block 1 of a three-chunk partition matched and the expected hash is now
\* the hash embedded in block 1, no longer the one embedded in block 0.
C21_Witness ==
    /\ pc = "SC_Advance"
    /\ SecurePtr.BlockNum = 2
    /\ ~pcp.Last
    /\ SecurePtr.Sha3Hash = TrailingHash
    /\ SecurePtr.Sha3Hash = Sha3Digest(ChunkImage(2, PrtnLen))
    /\ SecurePtr.Sha3Hash # Sha3Digest(ChunkImage(1, PrtnLen))

(***************************************************************************)
(* C22.  When both calls of the fuse scan return the glitch-detected       *)
(* error, XLoader_SetSecureState does not go on to classify the state for  *)
(* authentication as Non Secure or Emulated Asymmetric HWRoT and does not  *)
(* return success: it returns an error.                                    *)
(***************************************************************************)
BothScansGlitched == ppk.Calls = 2 /\ ppk.GlitchErrs = 2
FellThrough ==
    \E i \in 1..Len(RegLog) :
       /\ RegLog[i].addr = XPLMI_RTCFG_SECURESTATE_AHWROT_ADDR
       /\ RegLog[i].val \in {XPLMI_RTCFG_SECURESTATE_NONSECURE,
                             XPLMI_RTCFG_SECURESTATE_EMUL_AHWROT}

C22_GlitchReported ==
    (SSReturned /\ BothScansGlitched) =>
       /\ ~FellThrough
       /\ ss.Status # XST_SUCCESS

\* Both scans returned the glitch-detected error, and the classifier has
\* returned success with the state for authentication set to Non Secure.
C22_Witness ==
    /\ SSReturned
    /\ BothScansGlitched
    /\ ss.StatusTmp = XLOADER_ERR_GLITCH_DETECTED
    /\ ss.Status = XST_SUCCESS
    /\ rot.SecureStateAHWRoT = XPLMI_RTCFG_SECURESTATE_NONSECURE
    /\ rot.Reg[XPLMI_RTCFG_SECURESTATE_AHWROT_ADDR]
          = XPLMI_RTCFG_SECURESTATE_NONSECURE

(***************************************************************************)
(* C23.  XLoader_SecureChunkCopy initiates the copy of the next chunk if   *)
(* and only if its blocking or wait-only copy succeeded, the chunk is not  *)
(* the last one and BlockNum is not 0.  The initiate-only call targets the *)
(* chunk buffer other than the one in use, reads from SrcAddr + TotalSize, *)
(* has length min(RemainingDataLen - TotalSize, BlockSize), and            *)
(* IsNextChunkCopyStarted is set.                                          *)
(***************************************************************************)
\* The copy-in DevLog[i] is to be followed by an initiate-only call.
PrefetchDue(e) ==
    /\ e.st = XST_SUCCESS
    /\ e.blk # 0
    /\ e.blk < NumChunks(PrtnLen) - 1

\* The initiate-only call has just returned.
InitiateAtHand ==
    /\ DevLog # <<>>
    /\ IsInitiate(LastEvent)
    /\ pc \in {"DmaXfr", "SC_End"}

C23_PrefetchCondition ==
    /\ \A i \in 1..Len(DevLog) :
          /\ IsCopyIn(DevLog[i]) =>
                IF i < Len(DevLog)
                THEN IsInitiate(DevLog[i + 1]) <=> PrefetchDue(DevLog[i])
                ELSE (pc = "StartNext") <=> PrefetchDue(DevLog[i])
          /\ IsInitiate(DevLog[i]) =>
                /\ i > 1
                /\ IsCopyIn(DevLog[i - 1])
                /\ PrefetchDue(DevLog[i - 1])
                /\ DevLog[i].blk = DevLog[i - 1].blk
                /\ DevLog[i].src = DevLog[i - 1].src + DevLog[i - 1].len
                /\ DevLog[i].dst # DevLog[i - 1].dst
                /\ DevLog[i].dst \in {XPLMI_PMCRAM_CHUNK_MEMORY,
                                      XPLMI_PMCRAM_CHUNK_MEMORY_1}
    /\ pc = "StartNext" => (~pcp.Last /\ SecurePtr.BlockNum # 0)
    /\ InitiateAtHand =>
          /\ LastEvent.src = pcp.SrcAddr + pcp.BlockSize
          /\ LastEvent.dst = SecurePtr.NextChunkAddr
          /\ LastEvent.dst # SecurePtr.ChunkAddr
          /\ LastEvent.len = Min(SecurePtr.RemainingDataLen - pcp.BlockSize,
                                 pcp.BlockSize)
          /\ LastEvent.len = BlockLen(LastEvent.blk + 1, PrtnLen)
          /\ SecurePtr.IsNextChunkCopyStarted

\* Block 1 of a three-chunk partition was copied in and the copy of a
\* shorter block 2 was initiated into the other buffer.
C23_Witness ==
    /\ InitiateAtHand
    /\ pc = "DmaXfr"
    /\ LastEvent.st = XST_SUCCESS
    /\ LastEvent.blk = 1
    /\ LastEvent.len < pcp.BlockSize
    /\ LastEvent.dst = XPLMI_PMCRAM_CHUNK_MEMORY_1
    /\ SecurePtr.IsNextChunkCopyStarted

(***************************************************************************)
(* C24.  XLoader_SecureChunkCopy returns the data-copy error when          *)
(* DeviceCopy fails in the blocking or wait-only call, and then makes no   *)
(* initiate-only call, or when it fails in the initiate-only call.  After  *)
(* a failed initiate the chunk copied before stays in the chunk buffer in  *)
(* use, but the processor and XLoader_SecureCopy fail in the same          *)
(* iteration: no later call waits on the failed transfer.                  *)
(***************************************************************************)
DataCopyFail(st) == XPlmi_UpdateStatus(XLOADER_ERR_DATA_COPY_FAIL, st)

\* The data mover failed in call i: nothing is copied or verified after
\* it, and the processor returned the data-copy error for the same block.
AbortsAtCopy(i) ==
    /\ i = Len(DevLog)
    /\ pc \in {"SC_End", "SC_Done"}
    /\ PrcLog # <<>>
    /\ PrcLog[Len(PrcLog)].blk = DevLog[i].blk
    /\ PrcLog[Len(PrcLog)].Status = DataCopyFail(DevLog[i].st)
    /\ PrcLog[Len(PrcLog)].Status # XST_SUCCESS
    /\ pcp.Status = DataCopyFail(DevLog[i].st)
    /\ Done => sc.Status # XST_SUCCESS

C24_TransferError ==
    \A i \in 1..Len(DevLog) :
       /\ (IsCopyIn(DevLog[i]) /\ DevLog[i].st # XST_SUCCESS) =>
             AbortsAtCopy(i)
       /\ (IsInitiate(DevLog[i]) /\ DevLog[i].st # XST_SUCCESS) =>
             /\ AbortsAtCopy(i)
             /\ ~dma.active
             /\ DevLog[i - 1].st = XST_SUCCESS
             /\ RdMem(pmcram, SecurePtr.ChunkAddr, pcp.BlockSize)
                   = RdFlash(pcp.SrcAddr, pcp.BlockSize)

\* The initiate-only call for block 2 failed while block 1 was in the chunk
\* buffer, and XLoader_SecureCopy has returned the failure.
C24_Witness ==
    /\ Done
    /\ DevLog # <<>>
    /\ IsInitiate(LastEvent)
    /\ LastEvent.st # XST_SUCCESS
    /\ LastEvent.blk = 1
    /\ BitAnd(sc.Status, DataCopyFail(XST_FAILURE))
          = DataCopyFail(XST_FAILURE)
    /\ RdMem(pmcram, SecurePtr.ChunkAddr, pcp.BlockSize)
          = RdFlash(BlockAddr(1), pcp.BlockSize)

(***************************************************************************)
(* C25 as stated: the chunk buffer in use changes with every chunk, so no  *)
(* two consecutive chunks are copied in and verified in the same buffer.   *)
(***************************************************************************)
\* DevLog[i] and DevLog[j] are the copies into the chunk buffer of two
\* consecutive blocks.
ConsecutiveCopyIn(i, j) ==
    /\ IsCopyIn(DevLog[i])
    /\ IsCopyIn(DevLog[j])
    /\ DevLog[j].blk = DevLog[i].blk + 1

C25_Original ==
    \A i, j \in 1..Len(DevLog) :
       ConsecutiveCopyIn(i, j) => DevLog[j].dst # DevLog[i].dst

(***************************************************************************)
(* C25 (as amended).  The chunk buffer in use changes after every          *)
(* iteration that initiated the copy of the next chunk, that is after      *)
(* every block k >= 1 that is not the last one; blocks 0 and 1 are both    *)
(* copied in and verified in the first chunk buffer.  After each           *)
(* successful iteration the buffer in use is NextChunkAddr.                *)
(***************************************************************************)
C25_BufferRoles ==
    /\ \A i, j \in 1..Len(DevLog) :
          ConsecutiveCopyIn(i, j) =>
             (DevLog[j].dst # DevLog[i].dst <=> DevLog[i].blk >= 1)
    /\ \A i \in 1..Len(DevLog) :
          IsCopyIn(DevLog[i]) =>
             /\ DevLog[i].dst \in {XPLMI_PMCRAM_CHUNK_MEMORY,
                                   XPLMI_PMCRAM_CHUNK_MEMORY_1}
             /\ DevLog[i].blk = 0 => DevLog[i].dst = XPLMI_PMCRAM_CHUNK_MEMORY
    /\ (pc = "SC_Loop" /\ PrcLog # <<>>) =>
          SecurePtr.ChunkAddr = SecurePtr.NextChunkAddr

\* Blocks 0 and 1 went through the first chunk buffer, block 2 through the
\* second one.
C25_Witness ==
    \E i, j, m \in 1..Len(DevLog) :
       /\ ConsecutiveCopyIn(i, j)
       /\ ConsecutiveCopyIn(j, m)
       /\ DevLog[i].blk = 0
       /\ DevLog[i].dst = DevLog[j].dst
       /\ DevLog[m].dst # DevLog[j].dst
       /\ DevLog[m].st = XST_SUCCESS

(***************************************************************************)
(* C26.  XLoader_ProcessChecksumPrtn reads block 0 from the data offset of *)
(* the partition and every later block from NextBlkAddr.  When it          *)
(* succeeds NextBlkAddr is SrcAddr + TotalSize, ProcessedLen is TotalSize  *)
(* and BlockNum has grown by exactly 1, so that BlockNum is the number of  *)
(* chunks verified so far.  When it fails, in the chunk copy, in the       *)
(* transfer to the load address or in the verification, BlockNum and       *)
(* NextBlkAddr are as they were and ProcessedLen is 0.                     *)
(***************************************************************************)
InProcessor == pc \in {"ChunkCopy", "StartNext", "DmaXfr", "Verify"}
CopyStarted == pc \notin {"Start", "InitFailed", "Ready", "Idle"}
IsVerifiedOk(e) == IsVerify(e) /\ e.st = XST_SUCCESS

C26_Bookkeeping ==
    /\ InProcessor =>
          /\ pcp.SrcAddr = IF SecurePtr.BlockNum = 0 THEN DataBase
                           ELSE SecurePtr.NextBlkAddr
          /\ pcp.SrcAddr = BlockAddr(SecurePtr.BlockNum)
          /\ SecurePtr.ProcessedLen = 0
    /\ CopyStarted =>
          /\ SecurePtr.BlockNum = Len(SelectSeq(DevLog, IsVerifiedOk))
          /\ SecurePtr.BlockNum > 0 =>
                SecurePtr.NextBlkAddr = DataBase + SumProcessed(PrcLog)
    /\ pc = "SC_Advance" =>
          /\ SecurePtr.NextBlkAddr = pcp.SrcAddr + pcp.BlockSize
          /\ SecurePtr.ProcessedLen = pcp.BlockSize
          /\ SecurePtr.BlockNum = PrcLog[Len(PrcLog)].blk + 1
    /\ (pc \in {"SC_End", "SC_Done"} /\ PrcFailed) =>
          /\ SecurePtr.ProcessedLen = 0
          /\ SecurePtr.BlockNum = PrcLog[Len(PrcLog)].blk

\* A step of the processor: the bookkeeping moves only on success.
C26_ProcessorStep ==
    InProcessor =>
       IF pc' = "SC_Advance"
       THEN /\ SecurePtr'.BlockNum = SecurePtr.BlockNum + 1
            /\ SecurePtr'.NextBlkAddr = pcp.SrcAddr + pcp.BlockSize
            /\ SecurePtr'.ProcessedLen = pcp.BlockSize
       ELSE /\ SecurePtr'.BlockNum = SecurePtr.BlockNum
            /\ SecurePtr'.NextBlkAddr = SecurePtr.NextBlkAddr
            /\ SecurePtr'.ProcessedLen = 0

C26_BlockBookkeeping == [] C26_Bookkeeping /\ [][C26_ProcessorStep]_vars

\* Block 2 failed its verification after blocks 0 and 1 had passed: the
\* block number and the next block address are those left by block 1.
C26_Witness ==
    /\ pc = "SC_End"
    /\ Len(PrcLog) = 3
    /\ PrcFailed
    /\ IsVerify(LastEvent)
    /\ SecurePtr.BlockNum = 2
    /\ SecurePtr.NextBlkAddr = BlockAddr(2)
    /\ SecurePtr.ProcessedLen = 0

(***************************************************************************)
(* C27 as stated: when XLoader_ChecksumInit enabled checksum mode for the  *)
(* partition, XLoader_SecureInit calls neither XLoader_SecureAuthInit nor  *)
(* XLoader_SecureEncInit.                                                  *)
(***************************************************************************)
Called(Fn) == \E i \in 1..Len(InitCalls) : InitCalls[i] = Fn

C27_Original ==
    (InitReturned /\ SecurePtr.IsCheckSumEnabled) =>
       (~Called(SecureAuthInitFn) /\ ~Called(SecureEncInitFn))

(***************************************************************************)
(* C27 (as amended).  XLoader_SecureInit calls XLoader_ChecksumInit first. *)
(* In a build with the secure code it then calls XLoader_SecureAuthInit    *)
(* whenever XLoader_ChecksumInit returned success, with checksum mode      *)
(* enabled or not, and XLoader_SecureEncInit unless both results of        *)
(* XLoader_SecureAuthInit are failures.  In a build without the secure     *)
(* code it calls neither.                                                  *)
(***************************************************************************)
ChecksumInitErrs ==
    { XPlmi_UpdateStatus(XLOADER_ERR_INIT_INVALID_CHECKSUM_TYPE, 0),
      XPlmi_UpdateStatus(XLOADER_ERR_INIT_CHECKSUM_COPY_FAIL, XST_FAILURE) }
ChecksumInitOk ==
    /\ Called(ChecksumInitFn)
    /\ ~(InitCalls = <<ChecksumInitFn>> /\ InitStatus \in ChecksumInitErrs)

C27_InitOrder ==
    InitReturned =>
       /\ InitCalls \in { <<>>, <<ChecksumInitFn>>,
                          <<ChecksumInitFn, SecureAuthInitFn>>,
                          <<ChecksumInitFn, SecureAuthInitFn,
                            SecureEncInitFn>> }
       /\ InitCalls = <<>> => InitStatus \in EarlierInitErrs
       /\ Called(SecureAuthInitFn) <=>
             (ChecksumInitOk /\ ~hw.SecureExclude)
       /\ (Called(SecureAuthInitFn) /\ ~Called(SecureEncInitFn)) =>
             InitStatus # XST_SUCCESS
       /\ (ChecksumInitOk /\ ~hw.SecureExclude
              /\ InitStatus = XST_SUCCESS) => Called(SecureEncInitFn)

\* Checksum mode is enabled, the checksum processor is bound, and both
\* XLoader_SecureAuthInit and XLoader_SecureEncInit were called.
C27_Witness ==
    /\ pc = "Ready"
    /\ SecurePtr.IsCheckSumEnabled
    /\ SecurePtr.ProcessPrtn = ChecksumPrtnFn
    /\ InitCalls = <<ChecksumInitFn, SecureAuthInitFn, SecureEncInitFn>>

(***************************************************************************)
(* C28.  Every wait-only call of DeviceCopy has the source address, the    *)
(* destination chunk buffer and the length of the initiate-only call       *)
(* before it, which succeeded: the chunk that is waited for and then       *)
(* verified is the one whose copy was initiated.                           *)
(***************************************************************************)
IsCopy(e) == e.ev = "copy"

\* DevLog[j] is the last DeviceCopy call before DevLog[i].
CopyBefore(j, i) ==
    /\ j < i
    /\ IsCopy(DevLog[j])
    /\ \A m \in (j + 1)..(i - 1) : ~IsCopy(DevLog[m])

SameTransfer(a, b) == a.src = b.src /\ a.dst = b.dst /\ a.len = b.len

C28_WaitMatchesInitiate ==
    /\ \A i \in 1..Len(DevLog) :
          IsWait(DevLog[i]) =>
             \E j \in 1..(i - 1) :
                /\ CopyBefore(j, i)
                /\ IsInitiate(DevLog[j])
                /\ DevLog[j].st = XST_SUCCESS
                /\ DevLog[i].blk = DevLog[j].blk + 1
                /\ SameTransfer(DevLog[i], DevLog[j])
    /\ (pc = "ChunkCopy" /\ SecurePtr.IsNextChunkCopyStarted) =>
          /\ dma.active
          /\ dma.src = pcp.SrcAddr
          /\ dma.dst = SecurePtr.ChunkAddr
          /\ dma.len = pcp.BlockSize

\* Block 2 was waited for with success and is in the second chunk buffer.
C28_Witness ==
    /\ pc = "DmaXfr"
    /\ IsWait(LastEvent)
    /\ LastEvent.st = XST_SUCCESS
    /\ LastEvent.blk = 2
    /\ LastEvent.dst = XPLMI_PMCRAM_CHUNK_MEMORY_1
    /\ RdMem(pmcram, LastEvent.dst, LastEvent.len)
          = RdFlash(BlockAddr(2), BlockLen(2, PrtnLen))

(***************************************************************************)
(* C29.  Whenever XLoader_SecureCopy returns, with success or with         *)
(* failure, no transfer is left in flight: every initiate-only call that   *)
(* succeeded was followed by a wait-only call, and IsNextChunkCopyStarted  *)
(* is FALSE.                                                               *)
(***************************************************************************)
C29_NothingInFlight ==
    Done =>
       /\ InFlight(DevLog) = {}
       /\ ~dma.active
       /\ ~SecurePtr.IsNextChunkCopyStarted

\* XLoader_SecureCopy has returned a failure of the verification of block 1
\* while the copy of block 2, initiated before, is still in flight.
C29_Witness ==
    /\ Done
    /\ sc.Status # XST_SUCCESS
    /\ DevLog # <<>>
    /\ IsVerify(LastEvent)
    /\ LastEvent.blk = 1
    /\ dma.active
    /\ dma.src = BlockAddr(2)
    /\ InFlight(DevLog) # {}
    /\ SecurePtr.IsNextChunkCopyStarted
    /\ ClrCalls # <<>>

(***************************************************************************)
(* C30.  XLoader_SecureCopy called with Size 0 never calls the processor   *)
(* and copies nothing, calls the scrub once with the load address and      *)
(* length 0, and returns a status that is not success: the initial         *)
(* XST_FAILURE OR-ed with one cleanup flag.                                *)
(***************************************************************************)
C30_ZeroSize ==
    (CopyStarted /\ sc.Size = 0) =>
       /\ pc \in {"SC_Loop", "SC_End", "SC_Done"}
       /\ PrcLog = <<>>
       /\ DevLog = <<>>
       /\ Done =>
             /\ Len(ClrCalls) = 1
             /\ ClrCalls[1].addr = sc.DestAddr
             /\ ClrCalls[1].len = 0
             /\ sc.Status # XST_SUCCESS
             /\ sc.Status =
                   BitOr(XST_FAILURE,
                         IF ClrCalls[1].st # XST_SUCCESS
                         THEN XLOADER_SEC_BUF_CLEAR_ERR
                         ELSE XLOADER_SEC_BUF_CLEAR_SUCCESS)
             /\ \A a \in DdrAddrs : ddr[a] = StaleByte

\* An empty partition: the scrub of no bytes succeeded and the failure was
\* returned.
C30_Witness ==
    /\ Done
    /\ sc.Size = 0
    /\ PrcLog = <<>>
    /\ ClrCalls = << [ addr |-> sc.DestAddr, len |-> 0, st |-> XST_SUCCESS ] >>
    /\ sc.Status = BitOr(XST_FAILURE, XLOADER_SEC_BUF_CLEAR_SUCCESS)

(***************************************************************************)
(* C31 as stated: in every state in which XLoader_SetSecureState has not   *)
(* yet returned success a query-only read of the encryption mirror returns *)
(* Symmetric HWRoT.                                                        *)
(***************************************************************************)
\* XLoader_GetAHWRoT(NULL) and XLoader_GetSHWRoT(NULL).
QueryAHWRoT == XLoader_GetAHWRoT(NullPtr, rot.SecureStateAHWRoT)
QuerySHWRoT == XLoader_GetSHWRoT(NullPtr, rot.SecureStateSHWRoT)
ReturnedSuccess == SSReturned /\ ss.Status = XST_SUCCESS

C31_Original ==
    ~ReturnedSuccess => QuerySHWRoT = XPLMI_RTCFG_SECURESTATE_SHWROT

(***************************************************************************)
(* C31.  Before XLoader_SetSecureState ran, after it returned the          *)
(* boot-header-authentication-not-allowed error and after a failed         *)
(* register write of the authentication state, a query-only read of the    *)
(* encryption mirror returns Symmetric HWRoT; until the authentication     *)
(* state is set a query-only read of the authentication mirror returns     *)
(* Asymmetric HWRoT; a mirror reads Non Secure only after the classifier   *)
(* decided Non Secure for it and set it.  After a failed register write of *)
(* the encryption state the encryption mirror holds the decided state.     *)
(***************************************************************************)
\* The calls of Xil_SecureOut32 for the register at addr.
OutsTo(addr) == { i \in 1..Len(RegLog) : RegLog[i].addr = addr }
AuthSet == OutsTo(XPLMI_RTCFG_SECURESTATE_AHWROT_ADDR) # {}
EncSet == OutsTo(XPLMI_RTCFG_SECURESTATE_SHWROT_ADDR) # {}
NotRunYet == rpc \in {"Idle", "SS_Ppk"}
ReturnedBhAuthNotAllowed == SSReturned /\ ss.Status = BhAuthNotAllowedErr
ReturnedAuthWriteFailed ==
    /\ SSReturned
    /\ \E i \in OutsTo(XPLMI_RTCFG_SECURESTATE_AHWROT_ADDR) :
          RegLog[i].st # XST_SUCCESS
ReturnedEncWriteFailed ==
    /\ SSReturned
    /\ \E i \in OutsTo(XPLMI_RTCFG_SECURESTATE_SHWROT_ADDR) :
          RegLog[i].st # XST_SUCCESS

C31_FailSecureMirrors ==
    /\ (NotRunYet \/ ReturnedBhAuthNotAllowed \/ ReturnedAuthWriteFailed)
          => QuerySHWRoT = XPLMI_RTCFG_SECURESTATE_SHWROT
    /\ ~EncSet => QuerySHWRoT = XPLMI_RTCFG_SECURESTATE_SHWROT
    /\ ~AuthSet => QueryAHWRoT = XPLMI_RTCFG_SECURESTATE_AHWROT
    /\ ReturnedBhAuthNotAllowed => ~AuthSet
    /\ QueryAHWRoT = XPLMI_RTCFG_SECURESTATE_NONSECURE =>
          /\ AuthSet
          /\ ss.AHWRoT = XPLMI_RTCFG_SECURESTATE_NONSECURE
          /\ ss.StatusTmp # XST_SUCCESS
          /\ ~BhdrAuthSet(hw.BhAuth, hw.BhAuth)
    /\ QuerySHWRoT = XPLMI_RTCFG_SECURESTATE_NONSECURE =>
          /\ EncSet
          /\ ss.SHWRoT = XPLMI_RTCFG_SECURESTATE_NONSECURE
          /\ EncState(hw.DecOnly, hw.DecOnly, hw.PlmKeySrc, hw.PlmKeySrc)
                = XPLMI_RTCFG_SECURESTATE_NONSECURE
    /\ ReturnedEncWriteFailed =>
          /\ ~ReturnedSuccess
          /\ QuerySHWRoT = ss.SHWRoT

\* The register write of a Non Secure authentication state failed: the
\* authentication mirror reads Non Secure, the encryption mirror reads
\* Symmetric HWRoT although neither a fuse nor the key source is set.
C31_Witness ==
    /\ ReturnedAuthWriteFailed
    /\ ~ReturnedSuccess
    /\ QueryAHWRoT = XPLMI_RTCFG_SECURESTATE_NONSECURE
    /\ QuerySHWRoT = XPLMI_RTCFG_SECURESTATE_SHWROT
    /\ EncState(hw.DecOnly, hw.DecOnly, hw.PlmKeySrc, hw.PlmKeySrc)
          = XPLMI_RTCFG_SECURESTATE_NONSECURE


(***************************************************************************)
(* XPmRepair_Fpx.  The loader and the classifier are not running while the *)
(* repair runs.                                                            *)
(***************************************************************************)
NUM_OF_BISR_CACHE_DATA_REGIONS == 5
BISR_CACHE_SUB_SIZE == 16

MaxTagSize == 100
TagSizes == 0..MaxTagSize
EfuseTagAddrs == {0, XIH_PRTN_WORD_LEN}

\* FPD_SLCR_BISR_CACHE_DATA_0, _16, _32, _48, _64: the register space is not
\* continuous.
BisrDataDestAddr == <<1000, 1100, 1200, 1300, 1400>>
\* What is on the stack behind the table.
StrayAddrs == {0, 1000}

InitRepair ==
    /\ LoaderIdle
    /\ RotIdle
    /\ fpc = "Fpx_Clear"
    /\ \E EfuseTagAddr \in EfuseTagAddrs, TagSize \in TagSizes :
          fpx = FpxCall(EfuseTagAddr, TagSize)
    /\ BisrLog = <<>>

\* The words one iteration copies.
SubSize(TagSize) ==
    IF TagSize >= BISR_CACHE_SUB_SIZE THEN BISR_CACHE_SUB_SIZE ELSE TagSize

\* BisrDataDestAddr[i]: an element of the table or, past its end, whatever
\* the read finds.
RegionAddrs(i) ==
    IF i < NUM_OF_BISR_CACHE_DATA_REGIONS
    THEN {BisrDataDestAddr[i + 1]}
    ELSE StrayAddrs

\* XPmBisr_CopyStandard: the tag data address after the words it copied.
XPmBisr_CopyStandard(EfuseTagAddr, TagSize, BisrDataDestAddr_i) ==
    EfuseTagAddr + (TagSize * XIH_PRTN_WORD_LEN)

BisrCopyEvent(src, n, i, dst, Rem) ==
    [ src |-> src, n |-> n, i |-> i, dst |-> dst, Rem |-> Rem ]

\* The two XPm_RMW32 that clear the cache.
Fpx_CacheClear ==
    /\ fpc = "Fpx_Clear"
    /\ fpc' = "Fpx_Loop"
    /\ UNCHANGED <<fpx, BisrLog>>
    /\ UNCHANGED <<loaderVars, rotVars>>

\* One iteration of the while loop.
Fpx_Copy ==
    /\ fpc = "Fpx_Loop"
    /\ 0 < fpx.TagSize
    /\ LET TempTagSize == SubSize(fpx.TagSize)
       IN  \E dst \in RegionAddrs(fpx.i) :
              /\ BisrLog' = Append(BisrLog,
                    BisrCopyEvent(fpx.EfuseTagAddr, TempTagSize, fpx.i, dst,
                              fpx.TagSize))
              /\ fpx' = [fpx EXCEPT
                    !.TempTagSize = TempTagSize,
                    !.TagDataAddr = XPmBisr_CopyStandard(fpx.EfuseTagAddr,
                                       TempTagSize, dst),
                    !.EfuseTagAddr = fpx.EfuseTagAddr
                                        + (TempTagSize * XIH_PRTN_WORD_LEN),
                    !.TagSize = fpx.TagSize - TempTagSize,
                    !.i = fpx.i + 1]
    /\ UNCHANGED fpc
    /\ UNCHANGED <<loaderVars, rotVars>>

\* The loop ends; the two XPm_RMW32 that trigger the repair.
Fpx_Trigger ==
    /\ fpc = "Fpx_Loop"
    /\ ~(0 < fpx.TagSize)
    /\ fpc' = "Fpx_Poll1"
    /\ UNCHANGED <<fpx, BisrLog>>
    /\ UNCHANGED <<loaderVars, rotVars>>

\* XPm_PollForMask: the mask is seen or the poll times out.
PollStatuses == {XST_SUCCESS, XST_FAILURE}

Fpx_PollStatus1 ==
    /\ fpc = "Fpx_Poll1"
    /\ \E Status \in PollStatuses :
          /\ fpx' = [fpx EXCEPT !.Status = Status]
          /\ fpc' = IF XST_SUCCESS # Status THEN "Fpx_Done" ELSE "Fpx_Poll0"
    /\ UNCHANGED BisrLog
    /\ UNCHANGED <<loaderVars, rotVars>>

Fpx_PollStatus0 ==
    /\ fpc = "Fpx_Poll0"
    /\ \E Status \in PollStatuses :
          fpx' = [fpx EXCEPT !.Status = Status]
    /\ fpc' = "Fpx_Done"
    /\ UNCHANGED BisrLog
    /\ UNCHANGED <<loaderVars, rotVars>>

NextRepair ==
    \/ Fpx_CacheClear
    \/ Fpx_Copy
    \/ Fpx_Trigger
    \/ Fpx_PollStatus1
    \/ Fpx_PollStatus0

SpecRepair == InitRepair /\ [][NextRepair]_vars

(***************************************************************************)
(* C32.  In XPmRepair_Fpx, for every TagSize, each iteration copies        *)
(* min(TagSize remaining, 16) words, the copied word counts sum to         *)
(* TagSize, and the index that selects the destination stays below the 5   *)
(* entries of the region table at every access.                            *)
(***************************************************************************)
RECURSIVE CopiedWords(_)
CopiedWords(log) ==
    IF log = <<>> THEN 0 ELSE Head(log).n + CopiedWords(Tail(log))

LoopEnded == fpc \in {"Fpx_Poll1", "Fpx_Poll0", "Fpx_Done"}

\* Each iteration copies min(remaining, 16) words from where the one before
\* stopped, and at the end of the loop the counts sum to TagSize.
CopyCountsOk ==
    /\ \A k \in 1..Len(BisrLog) :
          /\ BisrLog[k].n = Min(BisrLog[k].Rem, BISR_CACHE_SUB_SIZE)
          /\ BisrLog[k].n > 0
          /\ BisrLog[k].i = k - 1
          /\ BisrLog[k].Rem
                = fpx.Arg.TagSize - CopiedWords(SubSeq(BisrLog, 1, k - 1))
          /\ BisrLog[k].src
                = fpx.Arg.EfuseTagAddr
                     + (CopiedWords(SubSeq(BisrLog, 1, k - 1))
                           * XIH_PRTN_WORD_LEN)
    /\ LoopEnded => CopiedWords(BisrLog) = fpx.Arg.TagSize

\* Every access of the table is inside the table.
IndexInTable ==
    \A k \in 1..Len(BisrLog) :
       /\ BisrLog[k].i < NUM_OF_BISR_CACHE_DATA_REGIONS
       /\ BisrLog[k].dst = BisrDataDestAddr[BisrLog[k].i + 1]

C32_RegionIndex == CopyCountsOk /\ IndexInTable

\* A tag of 81 words: the sixth iteration copies the last word with index 5.
C32_Witness ==
    /\ LoopEnded
    /\ fpx.Arg.TagSize
          = (NUM_OF_BISR_CACHE_DATA_REGIONS * BISR_CACHE_SUB_SIZE) + 1
    /\ Len(BisrLog) = NUM_OF_BISR_CACHE_DATA_REGIONS + 1
    /\ BisrLog[Len(BisrLog)].i = NUM_OF_BISR_CACHE_DATA_REGIONS
    /\ BisrLog[Len(BisrLog)].n = 1
    /\ BisrLog[Len(BisrLog)].dst \notin
          { BisrDataDestAddr[r] : r \in 1..NUM_OF_BISR_CACHE_DATA_REGIONS }

=============================================================================
